---- MODULE Spec2Model ----
(***************************************************************************)
(* A model of two parts of DefectDojo:                                     *)
(*   - dojo/tools/cyclonedx/xml_parser.py: CycloneDXXMLParser, the         *)
(*     transformation of a CycloneDX BOM document into Findings;           *)
(*   - dojo/api_v2/views.py: the push_to_jira decision of the finding      *)
(*     update, scan import and scan re-import endpoints, with the JIRA     *)
(*     push pipeline behind serializer.save as the API tests describe it;  *)
(*     the notes, remove_tags and product type member endpoints;           *)
(*   - dojo/decorators.py: the task counter, dojo_async_task, the model/id *)
(*     conversions and dojo_ratelimit.                                     *)
(* SpecParser is the parser, SpecJira the requests and the number of JIRA  *)
(* issues, SpecSync the priority and status of the issues of one test,     *)
(* SpecParallel several parser calls at once, SpecTasks the decorated      *)
(* tasks, SpecCounter the task counter under two threads, SpecRatelimit a  *)
(* rate-limited view, SpecNotes, SpecMembers and SpecTags the endpoints.   *)
(*                                                                         *)
(* Python None is the string NoVal.  A text that the code builds from      *)
(* several parts (an f-string, a "+=") is the sequence of its parts.       *)
(***************************************************************************)
EXTENDS Integers, Sequences, FiniteSets, Bags, TLC

VARIABLES doc, pc, ci, vi, bom_refs, findings, error,
          settings, jira_project, tests, fnd, groups, issues, last,
          calls, dicts, thread_local, broker, log, task, request, users, db, reqs

parserVars == <<doc, pc, ci, vi, bom_refs, findings, error>>
jiraVars == <<settings, jira_project, tests, fnd, groups, issues, last>>
parallelVars == <<calls, dicts>>
taskVars == <<thread_local, broker, log, task>>
jiraIdle == <<jira_project, tests, fnd, groups, issues>>
webVars == <<request, users, db, reqs>>
appVars == <<parallelVars, taskVars, webVars>>
vars == <<parserVars, jiraVars, appVars>>

NoVal == "<None>"

(***************************************************************************)
(* Bounds of the explored inputs.                                          *)
(***************************************************************************)
MaxRatings == 2
MaxComponents == 2
MaxTargets == 2
MaxTests == 2
MaxCreated == 1
MaxCwes == 2
MaxCalls == 2
MaxQueued == 1
MaxRecorded == 2
MaxNotes == 2
MaxRequests == 2
MaxDeleted == 2

Truthy(x) == x # NoVal

RECURSIVE SeqsUpTo(_, _)
SeqsUpTo(S, n) ==
    IF n = 0 THEN {<<>>}
    ELSE LET shorter == SeqsUpTo(S, n - 1)
         IN  shorter \cup {Append(s, x) : s \in {t \in shorter : Len(t) = n - 1}, x \in S}

(***************************************************************************)
(* get_namespace and the namespace test of _get_findings_xml.  A tag is    *)
(* the sequence of the pieces of the qualified name "{uri}local".          *)
(***************************************************************************)
BomPrefix == <<"{", "http://cyclonedx.org/schema/bom/">>

LastBrace(tag) ==
    LET closing == {i \in 1..Len(tag) : tag[i] = "}"}
    IN  IF closing = {} THEN 0 ELSE CHOOSE i \in closing : \A j \in closing : j <= i

\* re.match(r"\{.*\}", element.tag): anchored at the start, greedy to the last brace.
get_namespace(tag) ==
    IF Len(tag) > 0 /\ tag[1] = "{" /\ LastBrace(tag) > 1
    THEN SubSeq(tag, 1, LastBrace(tag))
    ELSE <<>>

StartsWith(s, prefix) ==
    Len(s) >= Len(prefix) /\ SubSeq(s, 1, Len(prefix)) = prefix

\* the prefix looked for anywhere in the namespace instead of at its start
NamespaceAcceptedAnywhere(tag) ==
    \E i \in 1..Len(get_namespace(tag)) : get_namespace(tag)[i] = BomPrefix[2]

NamespaceAccepted(tag) == StartsWith(get_namespace(tag), BomPrefix)

(***************************************************************************)
(* Cyclonedxhelper (dojo/tools/cyclonedx/helpers.py), as the specification *)
(* describes it.                                                           *)
(***************************************************************************)
Severities == {"Info", "Low", "Medium", "High", "Critical"}

Lower(s) ==
    CASE s \in {"low", "Low", "LOW"} -> "low"
      [] s \in {"high", "High", "HIGH"} -> "high"
      [] s \in {"medium", "Medium", "MEDIUM"} -> "medium"
      [] s \in {"critical", "Critical", "CRITICAL"} -> "critical"
      [] s \in {"info", "Info", "INFO"} -> "info"
      [] OTHER -> s

fix_severity(severity) ==
    CASE Lower(severity) = "info" -> "Info"
      [] Lower(severity) = "low" -> "Low"
      [] Lower(severity) = "medium" -> "Medium"
      [] Lower(severity) = "high" -> "High"
      [] Lower(severity) = "critical" -> "Critical"
      [] OTHER -> "Info"

VecCritical == "CVSS:3.1/AV:N/AC:L/PR:N/UI:N/S:U/C:H/I:H/A:H"
VecMediumBare == "AV:N/AC:L/PR:N/UI:N/S:U/C:L/I:N/A:N"
VecGarbage == "not-a-vector"

\* _get_cvssv3: None for a missing or unparseable vector, else the parsed
\* vector with its canonical form and its base severity.
get_cvssv3(raw_vector) ==
    CASE raw_vector = VecCritical ->
            [parsed |-> TRUE, clean |-> VecCritical, severity |-> "Critical"]
      [] raw_vector = VecMediumBare ->
            [parsed |-> TRUE, clean |-> "CVSS:3.1/AV:N/AC:L/PR:N/UI:N/S:U/C:L/I:N/A:N",
             severity |-> "Medium"]
      [] OTHER -> [parsed |-> FALSE, clean |-> NoVal, severity |-> NoVal]

\* _get_component: (None, None) for a reference the lookup does not hold.
get_component(refs, reference) ==
    IF reference \in DOMAIN refs
    THEN refs[reference]
    ELSE [name |-> NoVal, version |-> NoVal]

(***************************************************************************)
(* Finding(...): the fields the parser sets, with the model's defaults     *)
(* for the ones a call leaves out.                                         *)
(***************************************************************************)
MitigationNone == <<NoVal>>

Finding(title, description, severity, mitigation, references, name, version, vuln_id, static) ==
    [title |-> title, description |-> description, severity |-> severity,
     mitigation |-> mitigation, references |-> references,
     component_name |-> name, component_version |-> version,
     vuln_id_from_tool |-> vuln_id, static_finding |-> static,
     cvssv3 |-> NoVal, cwe |-> 0, vulnerability_ids |-> <<>>,
     is_mitigated |-> FALSE, active |-> TRUE, false_p |-> FALSE]

\* f"{component_name}:{component_version} | {vuln_id}"
Title(name, version, vuln_id) == <<name, ":", version, " | ", vuln_id>>

(***************************************************************************)
(* The result of one parser call: the exception it raised (NoVal when it   *)
(* returned) and what it returned.                                         *)
(***************************************************************************)
Raised(kind) == [err |-> kind, out |-> <<>>]
Returned(out) == [err |-> NoVal, out |-> out]

\* findtext("ratings/rating/severity"): the text of the first severity
\* element in document order, None when no rating has one.
RECURSIVE FirstSeverity(_)
FirstSeverity(ratings) ==
    IF ratings = <<>> THEN NoVal
    ELSE IF Head(ratings).severity # NoVal THEN Head(ratings).severity
    ELSE FirstSeverity(Tail(ratings))

(***************************************************************************)
(* The "manage CVSS" loop.  It runs over every rating; a rating of a       *)
(* recognised method rebinds the local variable severity to that rating's  *)
(* severity text, and changes the finding only when its vector parses.     *)
(* The value is the finding and the local severity after the loop.         *)
(***************************************************************************)
\* the vector's severity preferred to the rating's severity text
CvssStepVectorFirst(rating, st) ==
    LET cvssv3 == get_cvssv3(rating.vector)
    IN  IF ~cvssv3.parsed
        THEN [finding |-> st.finding, severity |-> rating.severity]
        ELSE [finding |-> [st.finding EXCEPT !.cvssv3 = cvssv3.clean,
                                             !.severity = cvssv3.severity],
              severity |-> rating.severity]

CvssStep(rating, st) ==
    LET cvssv3 == get_cvssv3(rating.vector)
    IN  IF ~cvssv3.parsed
        THEN [finding |-> st.finding, severity |-> rating.severity]
        ELSE [finding |->
                [st.finding EXCEPT
                    !.cvssv3 = cvssv3.clean,
                    !.severity = IF Truthy(rating.severity)
                                 THEN fix_severity(rating.severity)
                                 ELSE cvssv3.severity],
              severity |-> rating.severity]

RECURSIVE CvssLoop(_, _, _)
CvssLoop(ratings, methods, st) ==
    IF ratings = <<>> THEN st
    ELSE CvssLoop(Tail(ratings), methods,
                  IF Head(ratings).method \in methods
                  THEN CvssStep(Head(ratings), st)
                  ELSE st)

LegacyMethods == {"CVSSv3"}
CoreMethods == {"CVSSv3", "CVSSv31"}

(***************************************************************************)
(* get_cwes: int(cwe.text) for the cwe elements whose text is all digits.  *)
(* An element without text has text None, and None.isdigit() raises.       *)
(***************************************************************************)
NoText == "<no text>"
IsDigit(text) == text \in {"79", "89"}
ToInt(text) == IF text = "79" THEN 79 ELSE 89

get_cwes(texts) ==
    IF \E i \in 1..Len(texts) : texts[i] = NoText
    THEN Raised("AttributeError")
    ELSE LET digits == SelectSeq(texts, IsDigit)
         IN  Returned([i \in 1..Len(digits) |-> ToInt(digits[i])])

\* the last number kept instead of the first
SetCweLast(finding, cwes) ==
    IF Len(cwes) > 0 THEN [finding EXCEPT !.cwe = cwes[Len(cwes)]] ELSE finding

SetCwe(finding, cwes) ==
    IF Len(cwes) > 0 THEN [finding EXCEPT !.cwe = cwes[1]] ELSE finding

SetVulnerabilityIds(finding, vulnerability_ids) ==
    IF vulnerability_ids # <<>>
    THEN [finding EXCEPT !.vulnerability_ids = vulnerability_ids]
    ELSE finding

(***************************************************************************)
(* manage_vulnerability_legacy                                             *)
(***************************************************************************)
NoAttr == "<no attribute>"

LegacyDescription(v, severity) ==
    IF Truthy(v.description) THEN <<v.description>>
    ELSE <<"**Ref:**", v.ref, "**Id:**", v.id, "**Severity:**", severity>>

manage_vulnerability_legacy(v, refs, component_name, component_version) ==
    IF v.ref = NoAttr THEN Raised("KeyError")
    ELSE IF component_name = NoVal /\ v.ref \notin DOMAIN refs THEN Raised("KeyError")
    ELSE
    LET severity == FirstSeverity(v.ratings)
        name == IF component_name = NoVal THEN refs[v.ref].name ELSE component_name
        version == IF component_name = NoVal THEN refs[v.ref].version ELSE component_version
        f0 == Finding(Title(name, version, v.id), LegacyDescription(v, severity),
                      fix_severity(severity), MitigationNone, v.advisories,
                      name, version, v.id, FALSE)
        f1 == IF v.recommendations # <<>>
              THEN [f0 EXCEPT !.mitigation = v.recommendations] ELSE f0
        f2 == CvssLoop(v.ratings, LegacyMethods,
                       [finding |-> f1, severity |-> severity]).finding
        cwes == get_cwes(v.cwes)
    IN  IF cwes.err # NoVal THEN Raised(cwes.err)
        ELSE Returned(<<SetVulnerabilityIds(SetCwe(f2, cwes.out),
                            IF Truthy(v.id) THEN <<v.id>> ELSE <<>>)>>)

(***************************************************************************)
(* _manage_vulnerability_xml                                               *)
(***************************************************************************)
NoRef == "<no ref element>"
Mitigating == {"resolved", "resolved_with_pedigree", "not_affected"}

CoreDescription(v) ==
    IF Truthy(v.detail)
    THEN (IF Truthy(v.description) THEN <<v.description, "\n", v.detail>>
          ELSE <<"\n", v.detail>>)
    ELSE (IF Truthy(v.description) THEN <<v.description>> ELSE <<>>)

\* the ids of the references ahead of the vulnerability's own id
CoreVulnerabilityIdsReferencesFirst(v) ==
    SelectSeq(v.references, Truthy) \o (IF Truthy(v.id) THEN <<v.id>> ELSE <<>>)

\* the vulnerability's own id, then the ids of its references
CoreVulnerabilityIds(v) ==
    (IF Truthy(v.id) THEN <<v.id>> ELSE <<>>) \o SelectSeq(v.references, Truthy)

\* a false positive also marked as mitigated
ApplyAnalysisFalsePositiveMitigated(finding, analysis) ==
    IF Len(analysis) # 1 \/ ~Truthy(analysis[1].state) THEN Returned(finding)
    ELSE IF analysis[1].state \in {"resolved", "resolved_with_pedigree", "not_affected",
                                   "false_positive"}
    THEN Returned([finding EXCEPT !.is_mitigated = TRUE, !.active = FALSE,
                                  !.false_p = (analysis[1].state = "false_positive")])
    ELSE Returned(finding)

\* "resolved" missing from the states that mitigate
ApplyAnalysisPedigreeOnly(finding, analysis) ==
    IF Len(analysis) # 1 \/ ~Truthy(analysis[1].state) THEN Returned(finding)
    ELSE IF analysis[1].state \in {"resolved_with_pedigree", "not_affected"}
    THEN Returned([finding EXCEPT !.is_mitigated = TRUE, !.active = FALSE])
    ELSE IF analysis[1].state = "false_positive"
    THEN Returned([finding EXCEPT !.false_p = TRUE, !.active = FALSE])
    ELSE Returned(finding)

\* "Check for mitigation": the analysis element's state and detail
ApplyAnalysis(finding, analysis) ==
    IF Len(analysis) # 1 \/ ~Truthy(analysis[1].state) THEN Returned(finding)
    ELSE LET state == analysis[1].state
             f1 == IF state \in Mitigating
                   THEN [finding EXCEPT !.is_mitigated = TRUE, !.active = FALSE]
                   ELSE IF state = "false_positive"
                   THEN [finding EXCEPT !.false_p = TRUE, !.active = FALSE]
                   ELSE finding
         IN  IF ~f1.active /\ Truthy(analysis[1].detail)
             THEN (IF f1.mitigation = MitigationNone
                   THEN Raised("TypeError")
                   ELSE Returned([f1 EXCEPT !.mitigation =
                            @ \o <<"**This vulnerability is mitigated and/or suppressed:**",
                                   analysis[1].detail>>]))
             ELSE Returned(f1)

\* references: "**Title:** ..." and "**URL:** ..." of each advisory, then "\n"
RECURSIVE CoreReferences(_)
CoreReferences(advisories) ==
    IF advisories = <<>> THEN <<>>
    ELSE (IF Truthy(Head(advisories).title)
          THEN <<"**Title:**", Head(advisories).title>> ELSE <<>>)
         \o (IF Truthy(Head(advisories).url)
             THEN <<"**URL:**", Head(advisories).url>> ELSE <<>>)
         \o <<"\n">> \o CoreReferences(Tail(advisories))

\* one pass of the loop over b:affects/b:target
TargetStep(v, refs, target, severity) ==
    IF target = NoRef THEN [err |-> "AttributeError", out |-> <<>>, severity |-> severity]
    ELSE
    LET comp == get_component(refs, target)
        f0 == Finding(Title(comp.name, comp.version, v.id), CoreDescription(v),
                      severity,
                      IF v.recommendation = NoVal THEN MitigationNone
                      ELSE <<v.recommendation>>,
                      CoreReferences(v.advisories), comp.name, comp.version, v.id, TRUE)
        f1 == SetVulnerabilityIds(f0, CoreVulnerabilityIds(v))
        st == CvssLoop(v.ratings, CoreMethods, [finding |-> f1, severity |-> severity])
        cwes_v == get_cwes(v.cwes_ext)
        cwes_b == get_cwes(v.cwes)
        cwes == IF cwes_v.err = NoVal /\ cwes_v.out = <<>> THEN cwes_b ELSE cwes_v
        done == IF cwes.err # NoVal THEN cwes
                ELSE ApplyAnalysis(SetCwe(st.finding, cwes.out), v.analysis)
    IN  [err |-> done.err,
         out |-> IF done.err = NoVal THEN <<done.out>> ELSE <<>>,
         severity |-> st.severity]

RECURSIVE TargetLoop(_, _, _, _, _)
TargetLoop(v, refs, targets, severity, acc) ==
    IF targets = <<>> THEN Returned(acc)
    ELSE LET step == TargetStep(v, refs, Head(targets), severity)
         IN  IF step.err # NoVal THEN Raised(step.err)
             ELSE TargetLoop(v, refs, Tail(targets), step.severity, acc \o step.out)

manage_vulnerability_xml(v, refs) ==
    TargetLoop(v, refs, v.targets, fix_severity(FirstSeverity(v.ratings)), <<>>)

(***************************************************************************)
(* The explored documents.  A document is the root tag, the components     *)
(* (each with its legacy vulnerability elements), the legacy vulnerability *)
(* elements at the root and the 1.4 vulnerability elements at the root.    *)
(***************************************************************************)
LegacyVuln(ref, id, ratings) ==
    [ref |-> ref, id |-> id, ratings |-> ratings, description |-> NoVal,
     advisories |-> <<>>, recommendations |-> <<>>, cwes |-> <<>>]

CoreVuln(id, ratings, targets, references, recommendation, analysis) ==
    [id |-> id, ratings |-> ratings, targets |-> targets, references |-> references,
     recommendation |-> recommendation, analysis |-> analysis,
     description |-> NoVal, detail |-> NoVal, advisories |-> <<>>,
     cwes_ext |-> <<>>, cwes |-> <<>>]

Component(name, version, bomref, vulns) ==
    [name |-> name, version |-> version, bomref |-> bomref, vulns |-> vulns]

Document(tag, components, adhoc, vulns) ==
    [tag |-> tag, components |-> components, adhoc |-> adhoc, vulns |-> vulns]

Tag12 == <<"{", "http://cyclonedx.org/schema/bom/", "1.2", "}", "bom">>
Tag14 == <<"{", "http://cyclonedx.org/schema/bom/", "1.4", "}", "bom">>
Tags ==
    {Tag12, Tag14,
     <<"bom">>,
     <<"{", "http://cyclonedx.org/schema/ext/vulnerability/1.0", "}", "bom">>,
     <<"{", "https://cyclonedx.org/schema/bom/", "1.4", "}", "bom">>,
     <<"{", "http://example.org/", "http://cyclonedx.org/schema/bom/", "1.4", "}", "bom">>}

\* a rating is its method, vector and severity elements, NoVal for a missing one
Rating ==
    [method : {"CVSSv3", "CVSSv31", "other"},
     vector : {NoVal, VecCritical},
     severity : {NoVal, "low"}]
    \cup {[method |-> "CVSSv3", vector |-> VecMediumBare, severity |-> "HIGH"],
          [method |-> "CVSSv31", vector |-> VecMediumBare, severity |-> NoVal],
          [method |-> "CVSSv3", vector |-> VecGarbage, severity |-> "HIGH"]}
RatingSeqs == SeqsUpTo(Rating, MaxRatings)

LibA == Component("libA", "1.0", "r1", <<>>)
LibB == Component("libB", "2.0", "r2", <<>>)

\* one legacy vulnerability under a component, every list of ratings
DocsLegacyRatings ==
    {Document(Tag12, <<[LibA EXCEPT !.vulns = <<LegacyVuln("r1", "CVE-1", rs)>>]>>, <<>>, <<>>) :
        rs \in RatingSeqs}

\* one 1.4 vulnerability with one or two targets, every list of ratings
DocsCoreRatings ==
    {Document(Tag14, <<LibA, LibB>>, <<>>,
              <<CoreVuln("CVE-1", rs, ts, <<>>, NoVal, <<>>)>>) :
        rs \in RatingSeqs, ts \in {<<"r1">>, <<"r1", "r2">>}}

\* components with and without name and bom-ref, with legacy vulnerabilities
NestedSeqs ==
    {<<>>,
     <<LegacyVuln("r1", "CVE-1", <<>>)>>,
     <<LegacyVuln("r2", "CVE-1", <<>>), LegacyVuln("r1", "CVE-2", <<>>)>>,
     <<LegacyVuln(NoAttr, "CVE-3", <<>>)>>}
ComponentSet ==
    {Component(nb[1], "1.0", nb[2], vs) :
        nb \in {<<"libA", "r1">>, <<"libA", "r2">>, <<NoVal, "r1">>, <<"libA", NoVal>>},
        vs \in NestedSeqs}
DocsLegacyStructure ==
    {Document(Tag12, cs, adhoc, <<>>) :
        cs \in SeqsUpTo(ComponentSet, MaxComponents),
        adhoc \in {<<>>, <<LegacyVuln("r1", "CVE-4", <<>>)>>, <<LegacyVuln("r2", "CVE-4", <<>>)>>}}

\* 1.4 vulnerabilities with every list of targets; a target is the text of
\* its ref element, NoVal for a ref without text, NoRef for no ref element
Targets == {"r1", "r2", NoVal, NoRef}
DocsCoreTargets ==
    {Document(Tag14, <<LibA>>, <<>>,
              <<CoreVuln(id, <<>>, ts, refs, NoVal, <<>>)>> \o more) :
        id \in {NoVal, "CVE-1"}, ts \in SeqsUpTo(Targets, MaxTargets),
        refs \in {<<>>, <<"GHSA-1", NoVal, "CVE-9">>},
        more \in {<<>>, <<CoreVuln("CVE-2", <<>>, <<"r1">>, <<>>, NoVal, <<>>)>>}}

\* 1.4 vulnerabilities with every analysis
Analysis ==
    [state : {NoVal, "resolved", "resolved_with_pedigree", "not_affected",
              "false_positive", "exploitable"},
     detail : {NoVal, "fixed upstream"}]
AnalysisSeqs ==
    {<<>>} \cup {<<a>> : a \in Analysis}
           \cup {<<[state |-> "resolved", detail |-> NoVal],
                   [state |-> "resolved", detail |-> NoVal]>>}
DocsCoreAnalysis ==
    {Document(Tag14, <<LibA, LibB>>, <<>>,
              <<CoreVuln("CVE-1", <<>>, ts, <<>>, rec, an)>>) :
        ts \in {<<"r1">>, <<"r1", "r2">>}, rec \in {NoVal, "upgrade"}, an \in AnalysisSeqs}

\* every root tag, over a document that holds all three shapes
DocsNamespace ==
    {Document(tag, <<[LibA EXCEPT !.vulns = <<LegacyVuln("r1", "CVE-1", <<>>)>>]>>,
              <<LegacyVuln("r1", "CVE-4", <<>>)>>,
              <<CoreVuln("CVE-2", <<>>, <<"r1">>, <<>>, NoVal, <<>>)>>) :
        tag \in Tags}

\* vulnerabilities with every list of cwe elements: numeric text, other text,
\* no text; a 1.4 vulnerability can hold v:cwes and b:cwes
CweTexts == {"79", "89", "abc", NoText}
CweSeqs == SeqsUpTo(CweTexts, MaxCwes)
DocsCwes ==
    {Document(Tag12,
              <<[LibA EXCEPT !.vulns = <<[LegacyVuln("r1", "CVE-1", <<>>) EXCEPT !.cwes = cs]>>]>>,
              <<>>, <<>>) : cs \in CweSeqs}
    \cup
    {Document(Tag14, <<LibA>>, <<>>,
              <<[CoreVuln("CVE-1", <<>>, <<"r1">>, <<>>, NoVal, <<>>)
                    EXCEPT !.cwes_ext = ce, !.cwes = cb]>>) :
        ce \in CweSeqs, cb \in CweSeqs}

\* vulnerabilities with every subset of their optional children
DocsOptional ==
    {Document(Tag12,
              <<[LibA EXCEPT !.vulns =
                    <<[LegacyVuln("r1", "CVE-1", rs) EXCEPT
                          !.description = d, !.advisories = adv, !.recommendations = rec]>>]>>,
              <<>>, <<>>) :
        rs \in {<<>>, <<[method |-> "CVSSv3", vector |-> VecCritical, severity |-> NoVal]>>},
        d \in {NoVal, "text"}, adv \in {<<>>, <<"https://a.example/1">>},
        rec \in {<<>>, <<"upgrade">>}}
    \cup
    {Document(Tag14, <<LibA>>, <<>>,
              <<[CoreVuln("CVE-1", rs, <<"r1">>, <<>>, rec, an) EXCEPT
                    !.description = d, !.detail = dt, !.advisories = adv]>>) :
        rs \in {<<>>, <<[method |-> "CVSSv3", vector |-> VecCritical, severity |-> NoVal]>>},
        d \in {NoVal, "text"}, dt \in {NoVal, "more"},
        adv \in {<<>>, <<[title |-> "advisory", url |-> NoVal]>>},
        rec \in {NoVal, "upgrade"},
        an \in {<<>>, <<[state |-> "not_affected", detail |-> NoVal]>>,
                      <<[state |-> "not_affected", detail |-> "unused code"]>>}}

Documents ==
    DocsNamespace \cup DocsLegacyRatings \cup DocsCoreRatings \cup DocsLegacyStructure
        \cup DocsCoreTargets \cup DocsCoreAnalysis \cup DocsCwes \cup DocsOptional

(***************************************************************************)
(* _get_findings_xml, one step per element it visits.                      *)
(***************************************************************************)
NoRefs == [r \in {} |-> NoVal]

ParserInit ==
    /\ doc \in Documents
    /\ pc = "start"
    /\ ci = 0
    /\ vi = 0
    /\ bom_refs = NoRefs
    /\ findings = <<>>
    /\ error = NoVal
    /\ settings = NoVal
    /\ jira_project = NoVal
    /\ tests = NoVal
    /\ fnd = NoVal
    /\ groups = NoVal
    /\ issues = NoVal
    /\ last = NoVal
    /\ calls = NoVal
    /\ dicts = NoVal
    /\ thread_local = NoVal
    /\ broker = NoVal
    /\ log = NoVal
    /\ task = NoVal
    /\ request = NoVal
    /\ users = NoVal
    /\ db = NoVal
    /\ reqs = NoVal

\* the list assigned instead of appended to
AfterOverwrites(result, next_vi) ==
    IF result.err # NoVal
    THEN /\ error' = result.err
         /\ UNCHANGED <<pc, vi, findings>>
    ELSE /\ findings' = result.out
         /\ vi' = next_vi
         /\ UNCHANGED <<pc, error>>

\* findings.append / findings.extend of what a call returned; a call that
\* raised ends the whole parse where it is (error holds the exception)
After(result, next_vi) ==
    IF result.err # NoVal
    THEN /\ error' = result.err
         /\ UNCHANGED <<pc, vi, findings>>
    ELSE /\ findings' = findings \o result.out
         /\ vi' = next_vi
         /\ UNCHANGED <<pc, error>>

\* lines 15-35: the namespace of the root, the empty lookup and list
ParseRoot ==
    /\ pc = "start" /\ error = NoVal
    /\ IF NamespaceAccepted(doc.tag)
       THEN /\ pc' = "component"
            /\ ci' = 1
            /\ error' = error
       ELSE /\ error' = "ValueError"
            /\ UNCHANGED <<pc, ci>>
    /\ UNCHANGED <<doc, vi, bom_refs, findings>>
    /\ UNCHANGED <<jiraVars, appVars>>

\* lines 36-46: the next component and its bom-ref
SaveRef ==
    /\ pc = "component" /\ error = NoVal
    /\ ci <= Len(doc.components)
    /\ LET c == doc.components[ci]
       IN  bom_refs' = IF c.bomref # NoVal
                       THEN [r \in DOMAIN bom_refs \cup {c.bomref} |->
                                IF r = c.bomref
                                THEN [name |-> c.name, version |-> c.version]
                                ELSE bom_refs[r]]
                       ELSE bom_refs
    /\ pc' = "nested"
    /\ vi' = 1
    /\ UNCHANGED <<doc, ci, findings, error>>
    /\ UNCHANGED <<jiraVars, appVars>>

\* lines 48-59: the next legacy vulnerability of the component
NestedVulnerability ==
    /\ pc = "nested" /\ error = NoVal
    /\ vi <= Len(doc.components[ci].vulns)
    /\ LET c == doc.components[ci]
       IN  After(manage_vulnerability_legacy(c.vulns[vi], bom_refs, c.name, c.version), vi + 1)
    /\ UNCHANGED <<doc, ci, bom_refs>>
    /\ UNCHANGED <<jiraVars, appVars>>

NextComponent ==
    /\ pc = "nested" /\ error = NoVal
    /\ vi > Len(doc.components[ci].vulns)
    /\ pc' = "component"
    /\ ci' = ci + 1
    /\ UNCHANGED <<doc, vi, bom_refs, findings, error>>
    /\ UNCHANGED <<jiraVars, appVars>>

ComponentsDone ==
    /\ pc = "component" /\ error = NoVal
    /\ ci > Len(doc.components)
    /\ pc' = "adhoc"
    /\ vi' = 1
    /\ UNCHANGED <<doc, ci, bom_refs, findings, error>>
    /\ UNCHANGED <<jiraVars, appVars>>

\* lines 61-67: the next legacy vulnerability at the root
AdhocVulnerability ==
    /\ pc = "adhoc" /\ error = NoVal
    /\ vi <= Len(doc.adhoc)
    /\ After(manage_vulnerability_legacy(doc.adhoc[vi], bom_refs, NoVal, NoVal), vi + 1)
    /\ UNCHANGED <<doc, ci, bom_refs>>
    /\ UNCHANGED <<jiraVars, appVars>>

AdhocDone ==
    /\ pc = "adhoc" /\ error = NoVal
    /\ vi > Len(doc.adhoc)
    /\ pc' = "core"
    /\ vi' = 1
    /\ UNCHANGED <<doc, ci, bom_refs, findings, error>>
    /\ UNCHANGED <<jiraVars, appVars>>

\* lines 69-76: the next 1.4 vulnerability at the root
CoreVulnerability ==
    /\ pc = "core" /\ error = NoVal
    /\ vi <= Len(doc.vulns)
    /\ After(manage_vulnerability_xml(doc.vulns[vi], bom_refs), vi + 1)
    /\ UNCHANGED <<doc, ci, bom_refs>>
    /\ UNCHANGED <<jiraVars, appVars>>

\* line 77
ReturnFindings ==
    /\ pc = "core" /\ error = NoVal
    /\ vi > Len(doc.vulns)
    /\ pc' = "done"
    /\ UNCHANGED <<doc, ci, vi, bom_refs, findings, error>>
    /\ UNCHANGED <<jiraVars, appVars>>

ParserNext ==
    \/ ParseRoot
    \/ SaveRef
    \/ NestedVulnerability
    \/ NextComponent
    \/ ComponentsDone
    \/ AdhocVulnerability
    \/ AdhocDone
    \/ CoreVulnerability
    \/ ReturnFindings

SpecParser == ParserInit /\ [][ParserNext]_vars

\* what the caller of _get_findings_xml receives
Output == IF pc = "done" THEN findings ELSE <<>>
Raising == error # NoVal

(***************************************************************************)
(* What the claims about the parser speak of.                              *)
(***************************************************************************)
\* the namespace of the root element starts with the CycloneDX BOM prefix
HasBomNamespace(tag) ==
    Len(tag) >= 4 /\ tag[1] = "{" /\ tag[2] = "http://cyclonedx.org/schema/bom/"

\* the elements a Finding is expected for, in the order the parser visits them
RECURSIVE NestedSources(_)
NestedSources(components) ==
    IF components = <<>> THEN <<>>
    ELSE [i \in 1..Len(Head(components).vulns) |->
            [shape |-> "nested", v |-> Head(components).vulns[i],
             name |-> Head(components).name, target |-> 0]]
         \o NestedSources(Tail(components))

AdhocSources(adhoc) ==
    [i \in 1..Len(adhoc) |-> [shape |-> "adhoc", v |-> adhoc[i], name |-> NoVal, target |-> 0]]

RECURSIVE CoreSources(_)
CoreSources(vulns) ==
    IF vulns = <<>> THEN <<>>
    ELSE [i \in 1..Len(Head(vulns).targets) |->
            [shape |-> "core", v |-> Head(vulns), name |-> NoVal, target |-> i]]
         \o CoreSources(Tail(vulns))

Sources(d) == NestedSources(d.components) \o AdhocSources(d.adhoc) \o CoreSources(d.vulns)

\* a 1.0-1.3 document that follows the schema of the vulnerability extension:
\* named components, a ref on every vulnerability that names a component of
\* the document, numeric cwe elements, no 1.4 vulnerabilities
LegacyVulnValid(v, d) ==
    /\ v.ref # NoAttr
    /\ \A i \in 1..Len(v.cwes) : v.cwes[i] # NoText
    /\ \E i \in 1..Len(d.components) : d.components[i].bomref = v.ref

ValidLegacyDocument(d) ==
    /\ HasBomNamespace(d.tag)
    /\ d.vulns = <<>>
    /\ \A i \in 1..Len(d.components) :
          /\ d.components[i].name # NoVal
          /\ \A j \in 1..Len(d.components[i].vulns) :
                LegacyVulnValid(d.components[i].vulns[j], d)
    /\ \A i \in 1..Len(d.adhoc) : LegacyVulnValid(d.adhoc[i], d)

\* the ratings of a vulnerability that the CVSS loop of its shape acts on
RatedBy(src) ==
    LET methods == IF src.shape = "core" THEN {"CVSSv3", "CVSSv31"} ELSE {"CVSSv3"}
    IN  {i \in 1..Len(src.v.ratings) :
            /\ src.v.ratings[i].method \in methods
            /\ src.v.ratings[i].vector \in {VecCritical, VecMediumBare}}

VectorSeverity(vector) == IF vector = VecCritical THEN "Critical" ELSE "Medium"

Last(S) == CHOOSE i \in S : \A j \in S : j <= i

\* C1: a document whose root has no namespace, or one that does not start
\* with the CycloneDX BOM prefix, makes _get_findings_xml raise ValueError
\* before any component or vulnerability is visited; no Finding is produced.
C1_ForeignNamespaceRaises ==
    ~HasBomNamespace(doc.tag) =>
        /\ pc = "start"
        /\ error \in {NoVal, "ValueError"}
        /\ ci = 0 /\ vi = 0
        /\ bom_refs = NoRefs
        /\ findings = <<>>
        /\ Output = <<>>

C1_Witness ==
    /\ error = "ValueError"
    /\ doc.tag[1] = "{"
    /\ \E i \in 1..Len(doc.tag) : doc.tag[i] = "http://cyclonedx.org/schema/bom/"
    /\ Len(Sources(doc)) = 3

\* C2: for a valid document of the legacy vulnerability extension the parse
\* returns, and the Findings of the vulnerability elements under components
\* are exactly one each, in document order: as many as there are elements.
C2_OneFindingPerNestedVulnerability ==
    ValidLegacyDocument(doc) =>
        LET nested == NestedSources(doc.components)
        IN  /\ error = NoVal
            /\ pc = "adhoc" => Len(findings) = Len(nested) + (vi - 1)
            /\ pc \in {"adhoc", "core", "done"} =>
                  /\ Len(findings) >= Len(nested)
                  /\ \A k \in 1..Len(nested) :
                        k <= Len(findings) =>
                            /\ findings[k].vuln_id_from_tool = nested[k].v.id
                            /\ findings[k].component_name = nested[k].name
            /\ pc = "done" => Len(Output) = Len(nested) + Len(doc.adhoc)

C2_Witness ==
    /\ pc = "done"
    /\ ValidLegacyDocument(doc)
    /\ Len(NestedSources(doc.components)) = 3
    /\ Len(Output) = 4

\* C3 (as claimed): every 1.4 vulnerability that follows the schema (a ref in
\* every target, numeric cwe elements) yields one Finding per target, all
\* with the vulnerability's id.
CoreVulnValid(v) ==
    /\ \A i \in 1..Len(v.targets) : v.targets[i] # NoRef
    /\ \A i \in 1..Len(v.cwes) : v.cwes[i] # NoText
    /\ \A i \in 1..Len(v.cwes_ext) : v.cwes_ext[i] # NoText

C3_OneFindingPerTarget ==
    /\ (pc = "core" /\ vi <= Len(doc.vulns) /\ CoreVulnValid(doc.vulns[vi])) => error = NoVal
    /\ pc = "done" =>
          /\ Len(Output) = Len(Sources(doc))
          /\ \A k \in 1..Len(Output) :
                (k <= Len(Sources(doc)) /\ Sources(doc)[k].shape = "core") =>
                    /\ Output[k].vuln_id_from_tool = Sources(doc)[k].v.id
                    /\ Truthy(Sources(doc)[k].v.id) =>
                          /\ Output[k].vulnerability_ids # <<>>
                          /\ Output[k].vulnerability_ids[1] = Sources(doc)[k].v.id

\* C4 (as claimed): with severity text and a CVSS rating whose vector
\* parses, the Finding's severity is the one derived from a vector.
C4_VectorOverridesText ==
    pc = "done" =>
        \A k \in 1..Len(Output) :
            LET src == Sources(doc)[k]
            IN  (RatedBy(src) # {} /\ FirstSeverity(src.v.ratings) # NoVal) =>
                    Output[k].severity \in
                        {VectorSeverity(src.v.ratings[i].vector) : i \in RatedBy(src)}

\* C4 (amended): with a CVSS rating whose vector parses, the Finding's
\* severity comes from the last such rating: its own severity text,
\* normalised, when it has one, and its vector's severity only when it has none.
C4_LastCvssRatingDecides ==
    pc = "done" =>
        /\ Len(Output) = Len(Sources(doc))
        /\ \A k \in 1..Len(Output) :
              k <= Len(Sources(doc)) =>
                LET src == Sources(doc)[k]
                    r == src.v.ratings[Last(RatedBy(src))]
                IN  RatedBy(src) # {} =>
                        Output[k].severity =
                            IF r.severity # NoVal THEN fix_severity(r.severity)
                            ELSE VectorSeverity(r.vector)

C4_Witness ==
    /\ pc = "done"
    /\ \E k \in 1..Len(Output) :
          LET src == Sources(doc)[k]
          IN  /\ src.shape = "core" /\ src.target = 2
              /\ RatedBy(src) # {}
              /\ src.v.ratings[Last(RatedBy(src))].severity = "low"
              /\ src.v.ratings[Last(RatedBy(src))].vector = VecCritical
              /\ FirstSeverity(src.v.ratings) = "HIGH"
              /\ Output[k].severity = "Low"

\* C5: every Finding of a 1.4 vulnerability whose analysis state is
\* "resolved" is mitigated and not active.
C5_ResolvedIsMitigatedInactive ==
    pc = "done" =>
        /\ Len(Output) = Len(Sources(doc))
        /\ \A k \in 1..Len(Output) :
              k <= Len(Sources(doc)) =>
                LET src == Sources(doc)[k]
                IN  (/\ src.shape = "core"
                     /\ Len(src.v.analysis) = 1
                     /\ src.v.analysis[1].state = "resolved") =>
                        (Output[k].is_mitigated /\ ~Output[k].active)

C5_Witness ==
    /\ pc = "done"
    /\ Len(Output) = 2
    /\ Len(doc.vulns) = 1
    /\ Len(doc.vulns[1].analysis) = 1
    /\ doc.vulns[1].analysis[1].state = "resolved"
    /\ doc.vulns[1].analysis[1].detail # NoVal
    /\ Output[2].is_mitigated /\ ~Output[2].active

\* C6 (as claimed): every Finding returned has a non-empty title and a
\* severity among Info, Low, Medium, High, Critical.
C6_TitleAndSeverity ==
    \A k \in 1..Len(Output) :
        /\ Output[k].title # <<>>
        /\ Output[k].severity \in Severities

\* a document whose structure is what the parser navigates: a BOM namespace,
\* named components, legacy vulnerabilities with a ref that names a component,
\* a ref element in every target
LegacyStructureValid(v, d) ==
    /\ v.ref # NoAttr
    /\ \E i \in 1..Len(d.components) : d.components[i].bomref = v.ref

StructureValid(d) ==
    /\ HasBomNamespace(d.tag)
    /\ \A i \in 1..Len(d.components) :
          /\ d.components[i].name # NoVal
          /\ \A j \in 1..Len(d.components[i].vulns) :
                LegacyStructureValid(d.components[i].vulns[j], d)
    /\ \A i \in 1..Len(d.adhoc) : LegacyStructureValid(d.adhoc[i], d)
    /\ \A i \in 1..Len(d.vulns) :
          \A j \in 1..Len(d.vulns[i].targets) : d.vulns[i].targets[j] # NoRef

\* every cwe element of the document has text
CweTextPresent(d) ==
    /\ \A i \in 1..Len(d.components) :
          \A j \in 1..Len(d.components[i].vulns) :
             \A k \in 1..Len(d.components[i].vulns[j].cwes) :
                d.components[i].vulns[j].cwes[k] # NoText
    /\ \A i \in 1..Len(d.adhoc) :
          \A k \in 1..Len(d.adhoc[i].cwes) : d.adhoc[i].cwes[k] # NoText
    /\ \A i \in 1..Len(d.vulns) :
          /\ \A k \in 1..Len(d.vulns[i].cwes) : d.vulns[i].cwes[k] # NoText
          /\ \A k \in 1..Len(d.vulns[i].cwes_ext) : d.vulns[i].cwes_ext[k] # NoText

\* C15 (as claimed): whenever a vulnerability element is handled, every
\* component that has a bom-ref is in the lookup.
C15_LookupCompleteFirst ==
    (/\ error = NoVal
     /\ \/ pc = "nested" /\ vi <= Len(doc.components[ci].vulns)
        \/ pc = "adhoc" /\ vi <= Len(doc.adhoc)
        \/ pc = "core" /\ vi <= Len(doc.vulns))
    => \A i \in 1..Len(doc.components) :
          doc.components[i].bomref # NoVal => doc.components[i].bomref \in DOMAIN bom_refs

\* C16 (as claimed): a cwe element without text or with other text than a
\* number, and a target ref without text, never make the parse raise.
C16_MalformedTextNeverRaises ==
    (/\ StructureValid(doc)
     /\ \A i \in 1..Len(doc.vulns) : doc.vulns[i].analysis = <<>>)
    => error = NoVal

\* C17 (as claimed): with any subset of the optional children of a
\* vulnerability absent, the parse raises nothing.
C17_AbsentChildrenNeverRaise ==
    (StructureValid(doc) /\ CweTextPresent(doc)) => error = NoVal

\* the state of the single analysis element of a 1.4 vulnerability
AnalysisState(v) == IF Len(v.analysis) = 1 THEN v.analysis[1].state ELSE NoVal

\* C18: not_affected gives a mitigated, inactive Finding, false_positive a
\* false-positive, inactive one; a Finding is inactive only for resolved,
\* resolved_with_pedigree, not_affected and false_positive, and never both
\* mitigated and false-positive.
C18_AnalysisStates ==
    pc = "done" =>
        /\ Len(Output) = Len(Sources(doc))
        /\ \A k \in 1..Len(Output) :
              k <= Len(Sources(doc)) =>
                LET src == Sources(doc)[k]
                    f == Output[k]
                IN  /\ ~(f.is_mitigated /\ f.false_p)
                    /\ src.shape # "core" => f.active
                    /\ src.shape = "core" =>
                          /\ AnalysisState(src.v) = "not_affected" =>
                                (f.is_mitigated /\ ~f.active)
                          /\ AnalysisState(src.v) = "false_positive" =>
                                (f.false_p /\ ~f.active)
                          /\ ~f.active =>
                                AnalysisState(src.v) \in
                                    {"resolved", "resolved_with_pedigree",
                                     "not_affected", "false_positive"}

C18_Witness ==
    /\ pc = "done"
    /\ Len(Output) = 2
    /\ Len(doc.vulns) = 1
    /\ AnalysisState(doc.vulns[1]) = "false_positive"
    /\ doc.vulns[1].analysis[1].detail # NoVal
    /\ Output[1].false_p /\ ~Output[1].active /\ ~Output[1].is_mitigated

\* the cwe elements a Finding can take its cwe from: the ones with a number
\* as text; for a 1.4 vulnerability the v:cwes ahead of the b:cwes
NumericCwes(src) ==
    IF src.shape = "core" /\ SelectSeq(src.v.cwes_ext, IsDigit) # <<>>
    THEN SelectSeq(src.v.cwes_ext, IsDigit)
    ELSE SelectSeq(src.v.cwes, IsDigit)

\* C19: the Finding's cwe is the first of the vulnerability's cwe elements
\* (the only one when there is one), and is left unset (0) when there is none.
C19_FirstCweKept ==
    pc = "done" =>
        /\ Len(Output) = Len(Sources(doc))
        /\ \A k \in 1..Len(Output) :
              k <= Len(Sources(doc)) =>
                LET own == NumericCwes(Sources(doc)[k])
                IN  Output[k].cwe = IF own = <<>> THEN 0 ELSE ToInt(own[1])

C19_Witness ==
    /\ pc = "done"
    /\ Len(Output) = 1
    /\ Sources(doc)[1].shape = "nested"
    /\ Sources(doc)[1].v.cwes = <<"89", "79">>
    /\ Output[1].cwe = 89

\* the ids of the references of a vulnerability, in document order
ReferenceIds(src) ==
    IF src.shape = "core" THEN SelectSeq(src.v.references, Truthy) ELSE <<>>

\* C20 (as claimed): the first entry of a non-empty list of vulnerability
\* ids is the text of the vulnerability's own id element.
C20_PrimaryIdFirst ==
    pc = "done" =>
        \A k \in 1..Len(Output) :
            k <= Len(Sources(doc)) =>
                (Output[k].vulnerability_ids # <<>> =>
                    Output[k].vulnerability_ids[1] = Sources(doc)[k].v.id)

\* C20 (amended): with an id element that has text, the list is that id
\* followed by the ids of the references in document order; without one, the
\* list is the ids of the references alone.
C20_IdsInOrder ==
    pc = "done" =>
        /\ Len(Output) = Len(Sources(doc))
        /\ \A k \in 1..Len(Output) :
              k <= Len(Sources(doc)) =>
                LET src == Sources(doc)[k]
                    ids == Output[k].vulnerability_ids
                IN  IF Truthy(src.v.id)
                    THEN /\ ids # <<>>
                         /\ ids[1] = src.v.id
                         /\ Tail(ids) = ReferenceIds(src)
                    ELSE ids = ReferenceIds(src)

C20_Witness ==
    /\ pc = "done"
    /\ \E k \in 1..Len(Output) :
          /\ Sources(doc)[k].v.id = "CVE-1"
          /\ Output[k].vulnerability_ids = <<"CVE-1", "GHSA-1", "CVE-9">>
    /\ Len(Output) = 3

\* the part of a Finding that does not depend on the affected component
Shared(f) ==
    [severity |-> f.severity, cvssv3 |-> f.cvssv3, cwe |-> f.cwe,
     description |-> f.description, references |-> f.references,
     vulnerability_ids |-> f.vulnerability_ids, vuln_id_from_tool |-> f.vuln_id_from_tool,
     mitigation |-> f.mitigation, is_mitigated |-> f.is_mitigated,
     active |-> f.active, false_p |-> f.false_p, static_finding |-> f.static_finding]

\* positions k < l of the output that belong to two targets of one 1.4 vulnerability
SameVulnerability(d, k, l) ==
    /\ k < l /\ l <= Len(Sources(d))
    /\ Sources(d)[k].shape = "core" /\ Sources(d)[l].shape = "core"
    /\ Sources(d)[k].v = Sources(d)[l].v
    /\ l - k = Sources(d)[l].target - Sources(d)[k].target

\* C23 (as claimed): the Findings emitted for the targets of one 1.4
\* vulnerability agree on severity, CVSS vector, CWE, description,
\* references, vulnerability ids and status flags, whatever the ratings.
C23_TargetsAgree ==
    pc = "done" =>
        \A k \in 1..Len(Output), l \in 1..Len(Output) :
            SameVulnerability(doc, k, l) => Shared(Output[k]) = Shared(Output[l])


(***************************************************************************)
(* Several _get_findings_xml calls at once, each over a document of its    *)
(* own.  A call is its frame (the locals of _get_findings_xml apart from   *)
(* the lookup) and the dict that "bom_refs = {}" gave it; a step of a call *)
(* is one step of the parser above on that frame and dict.                 *)
(***************************************************************************)
Calls == 1..MaxCalls

LibZ == Component("libZ", "9.9", "r1", <<>>)

ParallelDocuments ==
    {Document(Tag12, <<[LibA EXCEPT !.vulns = <<LegacyVuln("r1", "CVE-1", <<>>)>>]>>,
              <<LegacyVuln("r1", "CVE-4", <<>>)>>, <<>>),
     Document(Tag14, <<LibZ, LibB>>, <<>>,
              <<CoreVuln("CVE-2", <<>>, <<"r1", "r2">>, <<>>, NoVal, <<>>)>>),
     Document(Tag14, <<LibB>>, <<>>,
              <<CoreVuln("CVE-3", <<>>, <<"r1">>, <<>>, NoVal, <<>>)>>),
     Document(Tag14, <<LibA>>, <<>>,
              <<CoreVuln("CVE-5", <<>>, <<"r1", NoRef>>, <<>>, NoVal, <<>>)>>),
     Document(<<"bom">>, <<LibA>>, <<LegacyVuln("r1", "CVE-4", <<>>)>>, <<>>)}

\* the locals of a call that has just been entered
Frame(d) ==
    [doc |-> d, pc |-> "start", ci |-> 0, vi |-> 0, findings |-> <<>>, error |-> NoVal]

Running(f) == f.pc # "done" /\ f.error = NoVal

\* all calls reading and writing the dict of the first call
LookupShared(c) == 1

\* line 34: bom_refs = {} binds a new dict in every call
Lookup(c) == c

\* findings.append / findings.extend of what a call returned, on a frame
AfterCall(f, result, next_vi) ==
    IF result.err # NoVal
    THEN [f EXCEPT !.error = result.err]
    ELSE [f EXCEPT !.findings = f.findings \o result.out, !.vi = next_vi]

\* lines 36-46 on a dict
Saved(refs, c) ==
    IF c.bomref # NoVal
    THEN [r \in DOMAIN refs \cup {c.bomref} |->
            IF r = c.bomref THEN [name |-> c.name, version |-> c.version] ELSE refs[r]]
    ELSE refs

\* the next step of _get_findings_xml on frame f with lookup refs
CallStep(f, refs) ==
    LET d == f.doc
    IN  CASE f.pc = "start" ->
               IF NamespaceAccepted(d.tag)
               THEN [frame |-> [f EXCEPT !.pc = "component", !.ci = 1], refs |-> NoRefs]
               ELSE [frame |-> [f EXCEPT !.error = "ValueError"], refs |-> refs]
          [] f.pc = "component" ->
               IF f.ci <= Len(d.components)
               THEN [frame |-> [f EXCEPT !.pc = "nested", !.vi = 1],
                     refs |-> Saved(refs, d.components[f.ci])]
               ELSE [frame |-> [f EXCEPT !.pc = "adhoc", !.vi = 1], refs |-> refs]
          [] f.pc = "nested" ->
               LET c == d.components[f.ci]
               IN  IF f.vi <= Len(c.vulns)
                   THEN [frame |-> AfterCall(f, manage_vulnerability_legacy(
                                       c.vulns[f.vi], refs, c.name, c.version), f.vi + 1),
                         refs |-> refs]
                   ELSE [frame |-> [f EXCEPT !.pc = "component", !.ci = f.ci + 1],
                         refs |-> refs]
          [] f.pc = "adhoc" ->
               IF f.vi <= Len(d.adhoc)
               THEN [frame |-> AfterCall(f, manage_vulnerability_legacy(
                                   d.adhoc[f.vi], refs, NoVal, NoVal), f.vi + 1),
                     refs |-> refs]
               ELSE [frame |-> [f EXCEPT !.pc = "core", !.vi = 1], refs |-> refs]
          [] f.pc = "core" ->
               IF f.vi <= Len(d.vulns)
               THEN [frame |-> AfterCall(f, manage_vulnerability_xml(d.vulns[f.vi], refs),
                                         f.vi + 1),
                     refs |-> refs]
               ELSE [frame |-> [f EXCEPT !.pc = "done"], refs |-> refs]

ParallelInit ==
    /\ calls \in {cs \in [Calls -> {Frame(d) : d \in ParallelDocuments}] :
                    \A a \in Calls, b \in Calls : a # b => cs[a].doc # cs[b].doc}
    /\ dicts = [c \in Calls |-> NoRefs]
    /\ doc = NoVal
    /\ pc = "idle"
    /\ ci = 0
    /\ vi = 0
    /\ bom_refs = NoRefs
    /\ findings = <<>>
    /\ error = NoVal
    /\ settings = NoVal
    /\ jira_project = NoVal
    /\ tests = NoVal
    /\ fnd = NoVal
    /\ groups = NoVal
    /\ issues = NoVal
    /\ last = NoVal
    /\ thread_local = NoVal
    /\ broker = NoVal
    /\ log = NoVal
    /\ task = NoVal
    /\ request = NoVal
    /\ users = NoVal
    /\ db = NoVal
    /\ reqs = NoVal

\* call c, standing at the given place, takes its next step
Advance(c, at) ==
    /\ calls[c].pc = at /\ Running(calls[c])
    /\ LET step == CallStep(calls[c], dicts[Lookup(c)])
       IN  /\ calls' = [calls EXCEPT ![c] = step.frame]
           /\ dicts' = [dicts EXCEPT ![Lookup(c)] = step.refs]
    /\ UNCHANGED <<parserVars, jiraVars, taskVars, webVars>>

CallParseRoot == \E c \in Calls : Advance(c, "start")
CallComponent == \E c \in Calls : Advance(c, "component")
CallNested == \E c \in Calls : Advance(c, "nested")
CallAdhoc == \E c \in Calls : Advance(c, "adhoc")
CallCore == \E c \in Calls : Advance(c, "core")

ParallelNext ==
    \/ CallParseRoot
    \/ CallComponent
    \/ CallNested
    \/ CallAdhoc
    \/ CallCore

SpecParallel == ParallelInit /\ [][ParallelNext]_vars

\* the frame a call over document d ends with when nothing else runs
RECURSIVE RunFrom(_, _)
RunFrom(f, refs) ==
    IF Running(f) THEN RunFrom(CallStep(f, refs).frame, CallStep(f, refs).refs) ELSE f

Alone(d) == RunFrom(Frame(d), NoRefs)

\* C21: in every interleaving a call ends as it ends alone (the same
\* Findings, the same exception), and the lookup of a call changes only in
\* steps of that call.
C21_CallsIndependent ==
    [][/\ \A c \in Calls :
            ~Running(calls'[c]) =>
                /\ calls'[c].findings = Alone(calls'[c].doc).findings
                /\ calls'[c].error = Alone(calls'[c].doc).error
       /\ \A c \in Calls : calls'[c] = calls[c] => dicts'[c] = dicts[c]]_vars

C21_Witness ==
    /\ \A c \in Calls : calls[c].pc = "done"
    /\ \E a \in Calls, b \in Calls :
          /\ dicts[a] # dicts[b]
          /\ "r1" \in DOMAIN dicts[a] /\ "r1" \in DOMAIN dicts[b]
          /\ dicts[a]["r1"].name = "libA" /\ dicts[b]["r1"].name = "libZ"
          /\ Len(calls[a].findings) = 2 /\ Len(calls[b].findings) = 2


(***************************************************************************)
(* dojo/api_v2/views.py: push_to_jira of a finding update, a scan import   *)
(* and a scan re-import.  Python's True, False and None are the strings    *)
(* "True", "False" and NoVal.                                              *)
(***************************************************************************)
PyTruthy(x) == x = "True"

\* a or b
PyOr(a, b) == IF PyTruthy(a) THEN a ELSE b

NoProject == [configured |-> FALSE, push_all_issues |-> "False"]

\* jira_helper.get_jira_project(obj): the JIRA project that applies to the
\* finding, test, engagement or product; none for no object
get_jira_project(driver) ==
    IF driver # NoVal /\ jira_project.configured THEN jira_project ELSE NoProject

\* an explicit push_to_jira=False kept, push_all_issues used only for None
PushOrAllUnlessExplicit(push_to_jira, project) ==
    IF push_to_jira = NoVal THEN project.push_all_issues ELSE push_to_jira

\* the project itself used for its push_all_issues flag
PushOrProject(push_to_jira, project) == PyOr(push_to_jira, "True")

\* push_to_jira = push_to_jira or jira_project.push_all_issues
PushOrAll(push_to_jira, project) == PyOr(push_to_jira, project.push_all_issues)

\* FindingViewSet.perform_update: the value handed to serializer.save
UpdatePushToJira(push_to_jira) ==
    LET project == get_jira_project("finding")
    IN  IF settings.enable_jira /\ project.configured
        THEN PushOrAll(push_to_jira, project)
        ELSE push_to_jira

\* ImportScanView.perform_create and ReImportScanView.perform_create: the
\* driver is the test, else the engagement, else the product, else None
ImportPushToJira(push_to_jira, driver) ==
    IF settings.enable_jira
    THEN LET project == get_jira_project(driver)
         IN  IF project.configured THEN PushOrAll(push_to_jira, project)
             ELSE push_to_jira
    ELSE push_to_jira

(***************************************************************************)
(* Behind serializer.save: the importer, deduplication and the JIRA push,  *)
(* as test_jira_import_and_pushing_api.py describes them.  A scan report   *)
(* holds three findings; grouped by component, two of them share a group.  *)
(***************************************************************************)
Report ==
    <<[key |-> "a", component |-> "x"],
      [key |-> "b", component |-> "x"],
      [key |-> "c", component |-> "y"]>>

\* the JIRA issues are a bag of (finding, group, updated): an issue belongs
\* to a finding (group 0) or to a finding group (finding 0)
IssueOfFinding(iss, f) == {e \in BagToSet(iss) : e.finding = f}
IssueOfGroup(iss, g) == {e \in BagToSet(iss) : e.group = g}

NewIssue(f, g) == SetToBag({[finding |-> f, group |-> g, updated |-> FALSE]})

\* a push of a finding or group that has no issue creates one, else updates it
PushObject(iss, f, g) ==
    LET have == IF f # 0 THEN IssueOfFinding(iss, f) ELSE IssueOfGroup(iss, g)
    IN  IF have = {}
        THEN iss (+) NewIssue(f, g)
        ELSE BagOfAll(LAMBDA e : IF e \in have THEN [e EXCEPT !.updated = TRUE] ELSE e, iss)

\* every push creates an issue
PushFindingAlwaysCreates(fs, iss, f) ==
    IF fs[f].duplicate THEN iss
    ELSE IF fs[f].group # 0
    THEN iss (+) NewIssue(0, fs[f].group)
    ELSE iss (+) NewIssue(f, 0)

\* a finding pushed on its own whether it is in a group or not
PushFindingIgnoresGroup(fs, iss, f) ==
    IF fs[f].duplicate THEN iss ELSE PushObject(iss, f, 0)

\* duplicates pushed like any other finding
PushFindingWithDuplicates(fs, iss, f) ==
    IF IssueOfFinding(iss, f) # {} \/ fs[f].group = 0
    THEN PushObject(iss, f, 0)
    ELSE PushObject(iss, 0, fs[f].group)

\* the push of one finding: a duplicate is not pushed; a finding in a group
\* (and without an issue of its own) pushes its group instead
PushFinding(fs, iss, f) ==
    IF fs[f].duplicate THEN iss
    ELSE IF IssueOfFinding(iss, f) # {} \/ fs[f].group = 0
    THEN PushObject(iss, f, 0)
    ELSE PushObject(iss, 0, fs[f].group)

RECURSIVE PushFindings(_, _, _)
PushFindings(fs, iss, todo) ==
    IF todo = <<>> THEN iss
    ELSE PushFindings(fs, PushFinding(fs, iss, Head(todo)), Tail(todo))

\* the push reaches JIRA only with JIRA enabled and a project for the object
Pushing(saved, driver) ==
    PyTruthy(saved) /\ settings.enable_jira /\ get_jira_project(driver).configured

\* deduplication: a new finding is a duplicate of an earlier finding with its key
IsDuplicate(fs, key) == \E i \in 1..Len(fs) : fs[i].key = key /\ ~fs[i].duplicate

GroupNamed(gs, t, name) ==
    LET have == {g \in 1..Len(gs) : gs[g].test = t /\ gs[g].name = name}
    IN  IF have = {} THEN 0 ELSE CHOOSE g \in have : TRUE

\* the importer: one finding per item of the report, in its group if asked
RECURSIVE ImportItems(_, _, _, _, _)
ImportItems(fs, gs, items, t, group_by) ==
    IF items = <<>> THEN [fnd |-> fs, groups |-> gs]
    ELSE LET item == Head(items)
             gs1 == IF group_by /\ GroupNamed(gs, t, item.component) = 0
                    THEN Append(gs, [test |-> t, name |-> item.component])
                    ELSE gs
             f == [test |-> t, key |-> item.key,
                   duplicate |-> IsDuplicate(fs, item.key),
                   group |-> IF group_by THEN GroupNamed(gs1, t, item.component) ELSE 0]
         IN  ImportItems(Append(fs, f), gs1, Tail(items), t, group_by)

FindingsOfTest(fs, t) == SelectSeq([i \in 1..Len(fs) |-> i], LAMBDA i : fs[i].test = t)

PushValues == {NoVal, "False", "True"}

JiraInit ==
    /\ settings \in [enable_jira : BOOLEAN]
    /\ jira_project \in [configured : BOOLEAN, push_all_issues : {"False", "True"}]
    /\ jira_project.configured \/ jira_project.push_all_issues = "False"
    /\ tests = 0
    /\ fnd = <<>>
    /\ groups = <<>>
    /\ issues = EmptyBag
    /\ last = [op |-> "none", requested |-> NoVal, saved |-> NoVal, driver |-> NoVal]
    /\ doc = NoVal
    /\ pc = "idle"
    /\ ci = 0
    /\ vi = 0
    /\ bom_refs = NoRefs
    /\ findings = <<>>
    /\ error = NoVal
    /\ calls = NoVal
    /\ dicts = NoVal
    /\ thread_local = NoVal
    /\ broker = NoVal
    /\ log = NoVal
    /\ task = NoVal
    /\ request = NoVal
    /\ users = NoVal
    /\ db = NoVal
    /\ reqs = NoVal

\* POST /import-scan/: ImportScanView.perform_create, then the import
ImportScan ==
    /\ tests < MaxTests
    /\ \E push_to_jira \in PushValues, group_by \in BOOLEAN,
          driver \in {"engagement", "product", NoVal} :
          /\ driver = NoVal => tests = 0
          /\ LET saved == ImportPushToJira(push_to_jira, driver)
                 new == ImportItems(fnd, groups, Report, tests + 1, group_by)
             IN  /\ tests' = tests + 1
                 /\ fnd' = new.fnd
                 /\ groups' = new.groups
                 /\ issues' = IF Pushing(saved, driver)
                              THEN PushFindings(new.fnd, issues,
                                                FindingsOfTest(new.fnd, tests + 1))
                              ELSE issues
                 /\ last' = [op |-> "import", requested |-> push_to_jira,
                             saved |-> saved, driver |-> driver]
    /\ UNCHANGED <<settings, jira_project>>
    /\ UNCHANGED <<parserVars, appVars>>

\* POST /reimport-scan/ of the same report into an existing test
ReImportScan ==
    /\ \E t \in 1..tests, push_to_jira \in PushValues :
          LET saved == ImportPushToJira(push_to_jira, "test")
          IN  /\ issues' = IF Pushing(saved, "test")
                           THEN PushFindings(fnd, issues, FindingsOfTest(fnd, t))
                           ELSE issues
              /\ last' = [op |-> "reimport", requested |-> push_to_jira,
                          saved |-> saved, driver |-> "test"]
    /\ UNCHANGED <<settings, jira_project, tests, fnd, groups>>
    /\ UNCHANGED <<parserVars, appVars>>

\* POST /findings/: a new finding of the latest test, not a duplicate, in no group
CreateFinding ==
    /\ Len(SelectSeq(fnd, LAMBDA f : f.key = "new")) < MaxCreated
    /\ tests > 0
    /\ \E push_to_jira \in PushValues :
          LET saved == UpdatePushToJira(push_to_jira)
              fs == Append(fnd, [test |-> tests, key |-> "new", duplicate |-> FALSE,
                                 group |-> 0])
          IN  /\ fnd' = fs
              /\ issues' = IF Pushing(saved, "finding")
                           THEN PushFinding(fs, issues, Len(fs))
                           ELSE issues
              /\ last' = [op |-> "create", requested |-> push_to_jira,
                          saved |-> saved, driver |-> "finding"]
    /\ UNCHANGED <<settings, jira_project, tests, groups>>
    /\ UNCHANGED <<parserVars, appVars>>

\* PATCH or PUT /findings/{id}/: FindingViewSet.perform_update, then the save
UpdateFinding ==
    /\ \E f \in 1..Len(fnd), push_to_jira \in PushValues :
          LET saved == UpdatePushToJira(push_to_jira)
          IN  /\ issues' = IF Pushing(saved, "finding")
                           THEN PushFinding(fnd, issues, f)
                           ELSE issues
              /\ last' = [op |-> "update", requested |-> push_to_jira,
                          saved |-> saved, driver |-> "finding"]
    /\ UNCHANGED <<settings, jira_project, tests, fnd, groups>>
    /\ UNCHANGED <<parserVars, appVars>>

JiraNext ==
    \/ ImportScan
    \/ ReImportScan
    \/ CreateFinding
    \/ UpdateFinding

SpecJira == JiraInit /\ [][JiraNext]_vars

(***************************************************************************)
(* What the claims about push_to_jira and the JIRA issues speak of.        *)
(***************************************************************************)
\* a JIRA project is configured for the target of the request
ProjectFor(driver) == get_jira_project(driver).configured

\* the number of issues among the elements es of the bag of issues
IssueCount(iss, es) == BagCardinality([e \in es |-> CopiesIn(e, iss)])

\* the findings of the report imported into test t, and the groups of test t
Imported(t) == {f \in 1..Len(fnd) : fnd[f].test = t /\ fnd[f].key # "new"}
GroupsOfTest(t) == {g \in 1..Len(groups) : groups[g].test = t}

\* C7: after a finding update, a scan import or a scan re-import, the value
\* handed to save is (requested or push_all_issues) when JIRA is enabled and
\* a project is configured for the target, so True when push_all_issues is
\* set whatever was requested; otherwise it is the requested value unchanged.
C7_SavedPushToJira ==
    last.op \in {"update", "import", "reimport"} =>
        IF settings.enable_jira /\ ProjectFor(last.driver)
        THEN /\ last.saved = IF last.requested = "True" THEN "True"
                             ELSE jira_project.push_all_issues
             /\ jira_project.push_all_issues = "True" => last.saved = "True"
        ELSE last.saved = last.requested

C7_Witness ==
    /\ last.op = "import"
    /\ last.requested = "False"
    /\ jira_project.push_all_issues = "True"
    /\ last.saved = "True"
    /\ issues # EmptyBag

\* C8: with push_all_issues off, a scan import, re-import, finding creation
\* or finding update whose push_to_jira is absent or false leaves the JIRA
\* issues and the JIRA group issues as they were.
C8_NoPushLeavesIssues ==
    [][(jira_project.push_all_issues = "False" /\ last'.requested \in {NoVal, "False"})
          => issues' = issues]_vars

C8_Witness ==
    /\ settings.enable_jira /\ jira_project.configured
    /\ jira_project.push_all_issues = "False"
    /\ last.op = "reimport"
    /\ last.requested = "False"
    /\ issues # EmptyBag
    /\ \E f \in 1..Len(fnd) : fnd[f].key = "new"

\* C9: a finding that deduplication marked as a duplicate has no JIRA issue,
\* and the findings of the same report imported into a later test are all
\* duplicates: that test has no JIRA issue and no JIRA group issue.
C9_DuplicatesNotPushed ==
    /\ \A f \in 1..Len(fnd) : fnd[f].duplicate => IssueOfFinding(issues, f) = {}
    /\ \A t \in 2..tests :
          /\ \A f \in Imported(t) : fnd[f].duplicate /\ IssueOfFinding(issues, f) = {}
          /\ \A g \in GroupsOfTest(t) : IssueOfGroup(issues, g) = {}

C9_Witness ==
    /\ tests = 2
    /\ last.op = "import"
    /\ Pushing(last.saved, last.driver)
    /\ GroupsOfTest(2) # {}
    /\ \E e \in BagToSet(issues) : e.group \in GroupsOfTest(1)

\* C10: every finding has at most one JIRA issue and every finding group at
\* most one JIRA group issue, whatever was pushed and however often.
C10_AtMostOneIssue ==
    /\ \A f \in 1..Len(fnd) : IssueCount(issues, IssueOfFinding(issues, f)) <= 1
    /\ \A g \in 1..Len(groups) : IssueCount(issues, IssueOfGroup(issues, g)) <= 1

C10_Witness ==
    /\ last.op = "update"
    /\ last.requested = "True"
    /\ \E e \in BagToSet(issues) : e.updated /\ e.finding # 0
    /\ \E e \in BagToSet(issues) : e.updated /\ e.group # 0

SeverityRank(severity) ==
    CASE severity = "Info" -> 0
      [] severity = "Low" -> 1
      [] severity = "Medium" -> 2
      [] severity = "High" -> 3
      [] severity = "Critical" -> 4

\* every severity counted as at or above the threshold
AtOrAboveAlways(severity, minimum) == TRUE

AtOrAbove(severity, minimum) == SeverityRank(severity) >= SeverityRank(minimum)

\* only enforce_verified_status_jira consulted
VerifiedEnoughJiraOnly(f) ==
    f.verified \/ ~settings.enforce_verified_status_jira

\* an unverified finding is held back when enforce_verified_status or
\* enforce_verified_status_jira is on
VerifiedEnough(f) ==
    f.verified \/ ~(settings.enforce_verified_status \/ settings.enforce_verified_status_jira)

\* the finding can be pushed to JIRA
Qualifies(f) ==
    /\ f.active /\ ~f.duplicate
    /\ VerifiedEnough(f)
    /\ AtOrAbove(f.severity, settings.jira_minimum_severity)

Members(fs, g) == {i \in 1..Len(fs) : fs[i].group = g}
Qualified(fs, g) == {i \in Members(fs, g) : Qualifies(fs[i])}

\* the highest severity among the findings S
Highest(fs, S) ==
    fs[CHOOSE i \in S :
          \A j \in S : SeverityRank(fs[j].severity) <= SeverityRank(fs[i].severity)].severity

\* the JIRA priority a severity is mapped to: the one of the same name
JiraPriority(severity) == severity

SyncIssue(f, g, priority, status) ==
    SetToBag({[finding |-> f, group |-> g, priority |-> priority, status |-> status]})

\* the push of a finding on its own: its issue is created when the finding
\* can be pushed; an existing issue follows the finding's status, not its
\* severity
push_finding_to_jira(fs, iss, f) ==
    LET have == IssueOfFinding(iss, f)
    IN  IF have # {}
        THEN BagOfAll(LAMBDA e : IF e \in have
                                 THEN [e EXCEPT !.status = IF fs[f].active THEN "Backlog"
                                                           ELSE "Done"]
                                 ELSE e, iss)
        ELSE IF Qualifies(fs[f])
        THEN iss (+) SyncIssue(f, 0, JiraPriority(fs[f].severity), "Backlog")
        ELSE iss

\* the priority of a group issue left as it was created
push_finding_group_keeps_priority(fs, iss, g) ==
    LET have == IssueOfGroup(iss, g)
        q == Qualified(fs, g)
    IN  IF have # {}
        THEN BagOfAll(LAMBDA e : IF e \in have
                                 THEN [e EXCEPT !.status = IF q = {} THEN "Done"
                                                           ELSE "Backlog"]
                                 ELSE e, iss)
        ELSE IF q # {}
        THEN iss (+) SyncIssue(0, g, JiraPriority(Highest(fs, q)), "Backlog")
        ELSE iss

\* the push of a finding group: its issue is created when a finding of the
\* group can be pushed; an existing issue follows the findings that can
\* be pushed, and is closed with the lowest priority when there is none
push_finding_group_to_jira(fs, iss, g) ==
    LET have == IssueOfGroup(iss, g)
        q == Qualified(fs, g)
        priority == IF q = {} THEN "Lowest" ELSE JiraPriority(Highest(fs, q))
        status == IF q = {} THEN "Done" ELSE "Backlog"
    IN  IF have # {}
        THEN BagOfAll(LAMBDA e : IF e \in have
                                 THEN [e EXCEPT !.priority = priority, !.status = status]
                                 ELSE e, iss)
        ELSE IF q # {}
        THEN iss (+) SyncIssue(0, g, priority, status)
        ELSE iss

\* the push of one finding: its group instead when it is in one
SyncPushFinding(fs, iss, f) ==
    IF IssueOfFinding(iss, f) # {} \/ fs[f].group = 0
    THEN push_finding_to_jira(fs, iss, f)
    ELSE push_finding_group_to_jira(fs, iss, fs[f].group)

RECURSIVE SyncPushFindings(_, _, _)
SyncPushFindings(fs, iss, todo) ==
    IF todo = <<>> THEN iss
    ELSE SyncPushFindings(fs, SyncPushFinding(fs, iss, Head(todo)), Tail(todo))

\* the two reports of the tests: two findings without grouping, and three
\* findings imported with group_by, two of one component and one of another
SyncReport(scan) ==
    IF scan = "zap"
    THEN <<[key |-> "a", component |-> "x", severity |-> "High"],
           [key |-> "b", component |-> "y", severity |-> "Medium"]>>
    ELSE <<[key |-> "a", component |-> "x", severity |-> "High"],
           [key |-> "b", component |-> "x", severity |-> "High"],
           [key |-> "c", component |-> "y", severity |-> "Medium"]>>

\* the imported findings with the severity of their report item, active, and
\* verified as the import asks
WithFields(fs, report, verified) ==
    [i \in 1..Len(fs) |->
        [test |-> fs[i].test, key |-> fs[i].key, duplicate |-> fs[i].duplicate,
         group |-> fs[i].group, severity |-> report[i].severity,
         active |-> TRUE, verified |-> verified]]

SyncInit ==
    /\ settings \in [enable_jira : {TRUE},
                     enforce_verified_status : BOOLEAN,
                     enforce_verified_status_jira : BOOLEAN,
                     jira_minimum_severity : {"Low", "High", "Critical"}]
    /\ jira_project = [configured |-> TRUE, push_all_issues |-> "False"]
    /\ tests = 0
    /\ fnd = <<>>
    /\ groups = <<>>
    /\ issues = EmptyBag
    /\ last = [op |-> "none", saved |-> NoVal, f |-> 0]
    /\ doc = NoVal
    /\ pc = "idle"
    /\ ci = 0
    /\ vi = 0
    /\ bom_refs = NoRefs
    /\ findings = <<>>
    /\ error = NoVal
    /\ calls = NoVal
    /\ dicts = NoVal
    /\ thread_local = NoVal
    /\ broker = NoVal
    /\ log = NoVal
    /\ task = NoVal
    /\ request = NoVal
    /\ users = NoVal
    /\ db = NoVal
    /\ reqs = NoVal

\* POST /import-scan/ of one of the reports into a new test
SyncImport ==
    /\ tests = 0
    /\ \E scan \in {"zap", "npm"}, push_to_jira \in {"True", "False"}, verified \in BOOLEAN :
          LET saved == ImportPushToJira(push_to_jira, "engagement")
              new == ImportItems(<<>>, <<>>, SyncReport(scan), 1, scan = "npm")
              fs == WithFields(new.fnd, SyncReport(scan), verified)
          IN  /\ tests' = 1
              /\ fnd' = fs
              /\ groups' = new.groups
              /\ issues' = IF Pushing(saved, "engagement")
                           THEN SyncPushFindings(fs, issues, FindingsOfTest(fs, 1))
                           ELSE issues
              /\ last' = [op |-> "import", saved |-> saved, f |-> 0]
    /\ UNCHANGED <<settings, jira_project>>
    /\ UNCHANGED <<parserVars, appVars>>

\* PATCH /findings/{id}/ with a severity and a status:
\* FindingViewSet.perform_update, then the save
SyncUpdate ==
    /\ \E f \in 1..Len(fnd), push_to_jira \in {"True", "False"},
          severity \in {"Info", "Medium", "High"}, active \in BOOLEAN :
          LET saved == UpdatePushToJira(push_to_jira)
              fs == [fnd EXCEPT ![f].severity = severity, ![f].active = active]
          IN  /\ fnd' = fs
              /\ issues' = IF Pushing(saved, "finding")
                           THEN SyncPushFinding(fs, issues, f)
                           ELSE issues
              /\ last' = [op |-> "update", saved |-> saved, f |-> f]
    /\ UNCHANGED <<settings, jira_project, tests, groups>>
    /\ UNCHANGED <<parserVars, appVars>>

SyncNext ==
    \/ SyncImport
    \/ SyncUpdate

SpecSync == SyncInit /\ [][SyncNext]_vars

(***************************************************************************)
(* What the claims about verified findings, the minimum severity and the   *)
(* issue of a group speak of.                                              *)
(***************************************************************************)
\* one of the two settings enforces the verified status
Enforced == settings.enforce_verified_status \/ settings.enforce_verified_status_jira

\* the finding is at or above jira_minimum_severity
AboveThreshold(f) ==
    SeverityRank(f.severity) >= SeverityRank(settings.jira_minimum_severity)

\* the finding was pushed: it has an issue, or its group has one
Pushed(f) ==
    IF fnd[f].group = 0 THEN IssueOfFinding(issues, f) # {}
    ELSE IssueOfGroup(issues, fnd[f].group) # {}

\* C12: no unverified finding, and no group of unverified findings only, has
\* an issue while enforce_verified_status or enforce_verified_status_jira is
\* on; right after an import with push_to_jira=true an active finding at or
\* above the threshold is pushed exactly when it is verified or both
\* settings are off.
C12_VerifiedEnforcement ==
    /\ \A e \in BagToSet(issues) :
          /\ (e.finding # 0 /\ ~fnd[e.finding].verified) => ~Enforced
          /\ (e.group # 0 /\ \A i \in Members(fnd, e.group) : ~fnd[i].verified) => ~Enforced
    /\ (last.op = "import" /\ last.saved = "True") =>
          \A f \in 1..Len(fnd) :
              AboveThreshold(fnd[f]) => (Pushed(f) <=> (fnd[f].verified \/ ~Enforced))

C12_Witness ==
    /\ last.op = "import" /\ last.saved = "True"
    /\ settings.enforce_verified_status /\ ~settings.enforce_verified_status_jira
    /\ settings.jira_minimum_severity = "Low"
    /\ groups = <<>>
    /\ fnd[1].verified
    /\ IssueCount(issues, BagToSet(issues)) = 2

\* the active findings of a group at or above the threshold
Counting(fs, g) ==
    {i \in Members(fs, g) :
        /\ fs[i].active
        /\ SeverityRank(fs[i].severity) >= SeverityRank(settings.jira_minimum_severity)}

\* C13: after an update pushed with push_to_jira=true of a finding whose
\* group has an issue, the issue has the priority of the highest severity
\* among the group's active findings at or above the threshold and is in
\* Backlog; with no such finding it is Done with priority Lowest.
C13_GroupIssueFollowsFindings ==
    [][(/\ last'.op = "update" /\ last'.saved = "True"
        /\ fnd'[last'.f].group # 0
        /\ IssueOfGroup(issues, fnd'[last'.f].group) # {})
       => /\ IssueOfGroup(issues', fnd'[last'.f].group) # {}
          /\ \A e \in IssueOfGroup(issues', fnd'[last'.f].group) :
                IF Counting(fnd', e.group) = {}
                THEN e.status = "Done" /\ e.priority = "Lowest"
                ELSE /\ e.status = "Backlog"
                     /\ e.priority = Highest(fnd', Counting(fnd', e.group))]_vars

C13_Witness ==
    /\ last.op = "update" /\ last.saved = "True"
    /\ settings.jira_minimum_severity = "Low"
    /\ fnd[last.f].group = 1
    /\ fnd[1].severity = "Info" /\ fnd[1].active
    /\ fnd[2].severity = "Medium" /\ fnd[2].active
    /\ \E e \in IssueOfGroup(issues, 1) : e.priority = "Medium" /\ e.status = "Backlog"

\* C14: right after an import with group_by and push_to_jira=true a group
\* has an issue only if one of its findings is at or above
\* jira_minimum_severity (and, its findings being pushable otherwise, it
\* then has one).
C14_GroupNeedsSeverity ==
    (last.op = "import" /\ last.saved = "True") =>
        \A g \in 1..Len(groups) :
            /\ IssueOfGroup(issues, g) # {} =>
                  \E i \in Members(fnd, g) : AboveThreshold(fnd[i])
            /\ ((fnd[1].verified \/ ~Enforced)
                 /\ \E i \in Members(fnd, g) : AboveThreshold(fnd[i])) =>
                  IssueCount(issues, IssueOfGroup(issues, g)) = 1

C14_Witness ==
    /\ last.op = "import" /\ last.saved = "True"
    /\ settings.jira_minimum_severity = "High"
    /\ Len(groups) = 2
    /\ IssueOfGroup(issues, 1) # {}
    /\ IssueOfGroup(issues, 2) = {}
    /\ fnd[3].verified

(***************************************************************************)
(* dojo/decorators.py.  A Python value is a record of its kind and an      *)
(* integer: a missing argument, None, an int, a bool (1 for True), a model *)
(* instance (its id) and a user (1 when block_execution is set on its      *)
(* usercontactinfo).                                                       *)
(***************************************************************************)
Missing == [kind |-> "missing", v |-> 0]
None == [kind |-> "none", v |-> 0]
Number(n) == [kind |-> "int", v |-> n]
Bool(b) == [kind |-> "bool", v |-> IF b THEN 1 ELSE 0]
Model(id) == [kind |-> "model", v |-> id]
User(block_execution) == [kind |-> "user", v |-> IF block_execution THEN 1 ELSE 0]

\* bool(x); kwargs.get gives None for a missing key
PyBool(x) ==
    CASE x.kind \in {"missing", "none"} -> FALSE
      [] x.kind \in {"int", "bool"} -> x.v # 0
      [] OTHER -> TRUE

\* isinstance(x, models.Model)
IsModel(x) == x.kind = "model"

\* the keyword arguments the decorators look at
Kwargs(finding, sync, countdown, async_user) ==
    [finding |-> finding, sync |-> sync, countdown |-> countdown, async_user |-> async_user]

\* the decorator argument "parameter": an index into args or a keyword name
Positional(i) == [positional |-> TRUE, index |-> i, name |-> ""]
Keyword(name) == [positional |-> FALSE, index |-> 0, name |-> name]

\* what a call did: the invocations of the innermost function, the number
\* of foreground calls made by dojo_async_task, the messages handed to
\* apply_async, the task names given to the counter, whether the wrapper of
\* dojo_async_task was entered, the exception raised and the value returned
NoEffect ==
    [invoked |-> <<>>, ran |-> 0, sent |-> <<>>, incrs |-> <<>>,
     entered |-> FALSE, raised |-> NoVal, returned |-> NoVal]

Raise(exception) == [NoEffect EXCEPT !.raised = exception]

\* the decorated function itself
Body(args, kwargs) ==
    [NoEffect EXCEPT !.invoked = <<[args |-> args, kwargs |-> kwargs]>>,
                     !.returned = "result"]

\* Dojo_User.wants_block_execution(user)
wants_block_execution(user) == user.kind = "user" /\ user.v = 1

\* the sync keyword left out of the decision
we_want_async_user_only(kwargs, current_user) ==
    LET user == IF kwargs.async_user.kind # "missing" THEN kwargs.async_user
                ELSE current_user
    IN  ~wants_block_execution(user)

\* lines 57-74
we_want_async(kwargs, current_user) ==
    IF PyBool(kwargs.sync) THEN FALSE
    ELSE LET user == IF kwargs.async_user.kind # "missing" THEN kwargs.async_user
                     ELSE current_user
         IN  ~wants_block_execution(user)

\* lines 175-192; the concatenation of line 190 needs a str
get_parameter_froms_args_kwargs(args, kwargs, parameter) ==
    IF parameter.positional /\ parameter.index >= Len(args)
    THEN [raised |-> "ValueError", value |-> None]
    ELSE LET model_or_id ==
                 IF parameter.positional THEN args[parameter.index + 1]
                 ELSE IF parameter.name = "finding" /\ kwargs.finding.kind # "missing"
                      THEN kwargs.finding
                      ELSE None
         IN  IF ~PyBool(model_or_id) /\ parameter.positional
             THEN [raised |-> "TypeError", value |-> model_or_id]
             ELSE [raised |-> NoVal, value |-> model_or_id]

\* args = list(args); args[parameter] = value: a list takes an integer index only
SetArg(args, parameter, value) ==
    IF parameter.positional
    THEN [raised |-> NoVal, args |-> [args EXCEPT ![parameter.index + 1] = value]]
    ELSE [raised |-> "TypeError", args |-> args]

\* model.objects.get(id=...), None for DoesNotExist (lines 155-159)
Instance(rows, id) == IF id.v \in rows THEN Model(id.v) ELSE None

\* lines 139-167, around the decorated function; ctx is what the wrapper
\* reads from its surroundings: the setting, the decorator's parameter, the
\* current user of the thread and the rows of the model
dojo_model_from_id(ctx, args, kwargs) ==
    IF ~ctx.pass_by_id THEN Body(args, kwargs)
    ELSE LET got == get_parameter_froms_args_kwargs(args, kwargs, ctx.parameter)
         IN  IF got.raised # NoVal THEN Raise(got.raised)
             ELSE IF PyBool(got.value) /\ ~IsModel(got.value)
                        /\ we_want_async(kwargs, ctx.user)
                  THEN LET set == SetArg(args, ctx.parameter, Instance(ctx.rows, got.value))
                       IN  IF set.raised # NoVal THEN Raise(set.raised)
                           ELSE Body(set.args, kwargs)
                  ELSE Body(args, kwargs)

\* lines 79-97, around the celery task of dojo_model_from_id(function)
dojo_async_task(ctx, args, kwargs) ==
    LET with_user == [kwargs EXCEPT !.async_user = ctx.user]
        countdown == IF with_user.countdown.kind = "missing" THEN 0
                     ELSE with_user.countdown.v
        popped == [with_user EXCEPT !.countdown = Missing]
    IN  IF we_want_async(popped, ctx.user)
        THEN [NoEffect EXCEPT
                !.entered = TRUE,
                !.incrs = <<"task">>,
                !.sent = <<[args |-> args, kwargs |-> popped, countdown |-> countdown]>>,
                !.returned = "AsyncResult"]
        ELSE [dojo_model_from_id(ctx, args, popped) EXCEPT
                !.entered = TRUE,
                !.incrs = <<"task">>,
                !.ran = 1]

\* lines 107-123, around dojo_async_task(...)
dojo_model_to_id(ctx, args, kwargs) ==
    IF ~ctx.pass_by_id THEN dojo_async_task(ctx, args, kwargs)
    ELSE LET got == get_parameter_froms_args_kwargs(args, kwargs, ctx.parameter)
         IN  IF got.raised # NoVal THEN Raise(got.raised)
             ELSE IF PyBool(got.value) /\ IsModel(got.value)
                        /\ we_want_async(kwargs, ctx.user)
                  THEN LET set == SetArg(args, ctx.parameter, Number(got.value.v))
                       IN  IF set.raised # NoVal THEN Raise(set.raised)
                           ELSE dojo_async_task(ctx, set.args, kwargs)
                  ELSE dojo_async_task(ctx, args, kwargs)

(***************************************************************************)
(* ThreadLocalTaskCounter: the attributes of threading.local() per thread. *)
(***************************************************************************)
Threads == {"t1", "t2"}

\* one set of attributes for all threads
LocalShared(t) == "t1"

\* line 18: threading.local() keeps the attributes of each thread apart
Local(t) == t

\* no attribute set yet: _get_recording gives False, _get_task_list []
Unset == [recording |-> NoVal, tasks |-> <<>>]

\* line 26
get_recording(attrs) == attrs.recording = "True"

\* lines 28-30
start(attrs) == [recording |-> "True", tasks |-> <<>>]

\* lines 32-33
stop(attrs) == [attrs EXCEPT !.recording = "False"]

\* lines 35-44
incr(attrs, task_name) ==
    IF ~get_recording(attrs) THEN attrs
    ELSE [attrs EXCEPT !.tasks = Append(@, task_name)]

\* lines 46-47
get(attrs) == Len(attrs.tasks)

RECURSIVE IncrAll(_, _)
IncrAll(attrs, names) ==
    IF names = <<>> THEN attrs ELSE IncrAll(incr(attrs, Head(names)), Tail(names))

\* the counter after thread t made the given incr calls
Counted(storage, t, names) ==
    [storage EXCEPT ![Local(t)] = IncrAll(storage[Local(t)], names)]

\* the calls of a thread as the claim counts them: since its last start(),
\* while recording
NoCalls == [open |-> FALSE, incrs |-> 0]
Logged(history, t, names) ==
    [history EXCEPT ![t] = IF @.open THEN [@ EXCEPT !.incrs = @ + Len(names)] ELSE @]

\* get_current_user() of a request thread: nobody, or the admin of the tests
CurrentUsers == {"nobody", "admin"}
get_current_user(u, accounts) ==
    IF u = "admin" THEN User(accounts.admin.block_execution) ELSE None

Accounts == {[admin |-> [block_execution |-> b]] : b \in BOOLEAN}

(***************************************************************************)
(* The calls of a decorated task.  task is how the function is decorated   *)
(* (the designated parameter, and whether dojo_model_to_id is the outer    *)
(* decorator), broker the messages handed to apply_async and not yet run,  *)
(* last the most recent call with what it did.                             *)
(***************************************************************************)
Context(u) ==
    [pass_by_id |-> settings.CELERY_PASS_MODEL_BY_ID, parameter |-> task.parameter,
     user |-> get_current_user(u, users), rows |-> db.Finding]

\* the outermost wrapper of the task
Entry(ctx, args, kwargs) ==
    IF task.to_id THEN dojo_model_to_id(ctx, args, kwargs)
    ELSE dojo_async_task(ctx, args, kwargs)

RECURSIVE Messages(_)
Messages(sent) ==
    IF sent = <<>> THEN EmptyBag ELSE SetToBag({Head(sent)}) (+) Messages(Tail(sent))

NoLast ==
    [op |-> "none", thread |-> "none", user |-> None, args |-> <<>>,
     kwargs |-> Kwargs(Missing, Missing, Missing, Missing), effects |-> NoEffect]

\* thread t, serving a request of user u, calls the task
CallTask(t, u, args, kwargs) ==
    LET effects == Entry(Context(u), args, kwargs)
    IN  /\ Len(thread_local[Local(t)].tasks) < MaxRecorded
        /\ BagCardinality(broker) + Len(effects.sent) <= MaxQueued
        /\ thread_local' = Counted(thread_local, t, effects.incrs)
        /\ log' = Logged(log, t, effects.incrs)
        /\ broker' = broker (+) Messages(effects.sent)
        /\ last' = [op |-> "call", thread |-> t, user |-> get_current_user(u, users),
                    args |-> args, kwargs |-> kwargs, effects |-> effects]
        /\ UNCHANGED <<settings, task, users, db>>
        /\ UNCHANGED <<parserVars, jiraIdle, parallelVars, request, reqs>>

\* the values tried at the designated parameter: an instance and the id of
\* an existing row, an id without a row, None and 0
ArgValues == {Model(1), Number(1), Number(9), None, Number(0)}

\* the value given the way the decorator designates it
Given(parameter, x) ==
    IF parameter.positional THEN [args |-> <<x>>, finding |-> Missing]
    ELSE [args |-> <<>>, finding |-> x]

\* every value, and no value at all, without keywords; an instance and an
\* id with sync=True; an instance with a countdown and every sync keyword
TaskInputs(parameter) ==
    {[args |-> Given(parameter, x).args,
      kwargs |-> Kwargs(Given(parameter, x).finding, Missing, Missing, Missing)] :
        x \in ArgValues}
    \cup
    {[args |-> <<>>, kwargs |-> Kwargs(Missing, Missing, Missing, Missing)]}
    \cup
    {[args |-> Given(parameter, x).args,
      kwargs |-> Kwargs(Given(parameter, x).finding, Bool(TRUE), Missing, Missing)] :
        x \in {Model(1), Number(1)}}
    \cup
    {[args |-> Given(parameter, Model(1)).args,
      kwargs |-> Kwargs(Given(parameter, Model(1)).finding, s, Number(5), Missing)] :
        s \in {Missing, Bool(TRUE), Bool(FALSE)}}

\* a request thread calls the task
Call ==
    \E u \in CurrentUsers, in \in TaskInputs(task.parameter) :
        CallTask("t1", u, in.args, in.kwargs)

\* the celery worker runs a message: the task below apply_async, in a
\* thread without a current user
WorkerRun ==
    \E m \in BagToSet(broker) :
        /\ broker' = broker (-) SetToBag({m})
        /\ last' = [op |-> "run", thread |-> "worker", user |-> None,
                    args |-> m.args, kwargs |-> m.kwargs,
                    effects |-> dojo_model_from_id(Context("nobody"), m.args, m.kwargs)]
        /\ UNCHANGED <<thread_local, log, settings, task, users, db>>
        /\ UNCHANGED <<parserVars, jiraIdle, parallelVars, request, reqs>>

\* the profile page of the tests: block_execution of the admin
SetBlockExecution ==
    \E b \in BOOLEAN :
        /\ users' = [users EXCEPT !.admin.block_execution = b]
        /\ UNCHANGED <<thread_local, log, broker, last, settings, task, db>>
        /\ UNCHANGED <<parserVars, jiraIdle, parallelVars, request, reqs>>

TasksInit ==
    /\ settings \in {[CELERY_PASS_MODEL_BY_ID |-> b] : b \in BOOLEAN}
    /\ task \in {[parameter |-> p, to_id |-> b] :
                    p \in {Positional(0), Keyword("finding")}, b \in BOOLEAN}
    /\ settings.CELERY_PASS_MODEL_BY_ID \/ task.to_id
    /\ users \in Accounts
    /\ db = [Finding |-> {1}]
    /\ thread_local = [t \in Threads |-> Unset]
    /\ log = [t \in Threads |-> NoCalls]
    /\ broker = EmptyBag
    /\ last = NoLast
    /\ doc = NoVal
    /\ pc = "idle"
    /\ ci = 0
    /\ vi = 0
    /\ bom_refs = NoRefs
    /\ findings = <<>>
    /\ error = NoVal
    /\ jira_project = NoVal
    /\ tests = NoVal
    /\ fnd = NoVal
    /\ groups = NoVal
    /\ issues = NoVal
    /\ calls = NoVal
    /\ dicts = NoVal
    /\ request = NoVal
    /\ reqs = NoVal

TasksNext ==
    \/ Call
    \/ WorkerRun
    \/ SetBlockExecution

SpecTasks == TasksInit /\ [][TasksNext]_vars

(***************************************************************************)
(* The counter under two request threads that start and stop recording,    *)
(* call incr and call a task decorated with dojo_async_task.               *)
(***************************************************************************)
CounterInit ==
    /\ settings = [CELERY_PASS_MODEL_BY_ID |-> FALSE]
    /\ task = [parameter |-> Positional(0), to_id |-> FALSE]
    /\ users \in Accounts
    /\ db = [Finding |-> {1}]
    /\ thread_local = [t \in Threads |-> Unset]
    /\ log = [t \in Threads |-> NoCalls]
    /\ broker = EmptyBag
    /\ last = NoLast
    /\ doc = NoVal
    /\ pc = "idle"
    /\ ci = 0
    /\ vi = 0
    /\ bom_refs = NoRefs
    /\ findings = <<>>
    /\ error = NoVal
    /\ jira_project = NoVal
    /\ tests = NoVal
    /\ fnd = NoVal
    /\ groups = NoVal
    /\ issues = NoVal
    /\ calls = NoVal
    /\ dicts = NoVal
    /\ request = NoVal
    /\ reqs = NoVal

\* dojo_async_task_counter.start() on thread t
Start ==
    \E t \in Threads :
        /\ thread_local' = [thread_local EXCEPT ![Local(t)] = start(@)]
        /\ log' = [log EXCEPT ![t] = [open |-> TRUE, incrs |-> 0]]
        /\ UNCHANGED <<broker, last, settings, task, users, db>>
        /\ UNCHANGED <<parserVars, jiraIdle, parallelVars, request, reqs>>

\* dojo_async_task_counter.stop() on thread t
Stop ==
    \E t \in Threads :
        /\ thread_local' = [thread_local EXCEPT ![Local(t)] = stop(@)]
        /\ log' = [log EXCEPT ![t].open = FALSE]
        /\ UNCHANGED <<broker, last, settings, task, users, db>>
        /\ UNCHANGED <<parserVars, jiraIdle, parallelVars, request, reqs>>

\* dojo_async_task_counter.incr(...) on thread t
Incr ==
    \E t \in Threads :
        /\ Len(thread_local[Local(t)].tasks) < MaxRecorded
        /\ thread_local' = Counted(thread_local, t, <<"other">>)
        /\ log' = Logged(log, t, <<"other">>)
        /\ UNCHANGED <<broker, last, settings, task, users, db>>
        /\ UNCHANGED <<parserVars, jiraIdle, parallelVars, request, reqs>>

\* thread t calls a task decorated with dojo_async_task
CounterCall ==
    \E t \in Threads, u \in CurrentUsers, s \in {Missing, Bool(TRUE)} :
        CallTask(t, u, <<Model(1)>>, Kwargs(Missing, s, Missing, Missing))

CounterNext ==
    \/ Start
    \/ Stop
    \/ Incr
    \/ CounterCall
    \/ WorkerRun

SpecCounter == CounterInit /\ [][CounterNext]_vars

(***************************************************************************)
(* What the claims about the decorators speak of.                          *)
(***************************************************************************)
\* the value a call holds at the parameter the decorators designate
Designated(parameter, args, kwargs) ==
    IF parameter.positional
    THEN IF parameter.index < Len(args) THEN args[parameter.index + 1] ELSE Missing
    ELSE kwargs.finding

\* the call was made with sync=True or by a user with block_execution set
Foreground(call) ==
    \/ call.kwargs.sync = Bool(TRUE)
    \/ call.user = User(TRUE)

\* every invocation and every message of a call holds the arguments given
ArgumentsUnchanged(call) ==
    /\ \A i \in 1..Len(call.effects.invoked) :
          /\ call.effects.invoked[i].args = call.args
          /\ call.effects.invoked[i].kwargs.finding = call.kwargs.finding
    /\ \A i \in 1..Len(call.effects.sent) :
          /\ call.effects.sent[i].args = call.args
          /\ call.effects.sent[i].kwargs.finding = call.kwargs.finding

\* C22: a call that enters the wrapper of dojo_async_task runs the function
\* once in the calling thread, sending nothing, exactly when it was made
\* with sync=True or by a user with block_execution set; otherwise it hands
\* the function to apply_async once, with the given countdown or 0, and
\* does not run it.
C22_ForegroundOrDispatchedOnce ==
    (last.op = "call" /\ last.effects.entered) =>
        LET e == last.effects
        IN  IF Foreground(last)
            THEN /\ e.ran = 1
                 /\ e.sent = <<>>
                 /\ e.raised = NoVal => (e.returned = "result" /\ Len(e.invoked) = 1)
            ELSE /\ e.ran = 0
                 /\ e.invoked = <<>>
                 /\ e.raised = NoVal /\ e.returned = "AsyncResult"
                 /\ Len(e.sent) = 1
                 /\ e.sent[1].countdown = IF last.kwargs.countdown = Missing THEN 0
                                          ELSE last.kwargs.countdown.v
                 /\ CopiesIn(e.sent[1], broker) >= 1

C22_Witness ==
    /\ last.op = "call" /\ last.effects.entered
    /\ last.user = User(FALSE)
    /\ last.kwargs.sync = Bool(FALSE)
    /\ last.kwargs.countdown = Number(5)
    /\ Len(last.effects.sent) = 1
    /\ last.effects.sent[1].countdown = 5
    /\ BagCardinality(broker) = 1

\* C26: on every thread get() is the number of incr calls the thread made
\* while recording since its last start(), and the thread records exactly
\* between its own start() and stop(), whatever the other threads do.
C26_CountIsOwnIncrs ==
    \A t \in Threads :
        /\ Len(thread_local[t].tasks) = log[t].incrs
        /\ (thread_local[t].recording = "True") = log[t].open

C26_Witness ==
    /\ thread_local["t1"].tasks = <<"task", "other">>
    /\ thread_local["t1"].recording = "False"
    /\ thread_local["t2"].recording = "True"
    /\ thread_local["t2"].tasks = <<>>
    /\ last.op = "call" /\ last.thread = "t2"

\* C28 (as claimed): with CELERY_PASS_MODEL_BY_ID on, a task decorated with
\* both decorators and called with an instance of an existing row at the
\* positional parameter is invoked with that instance in the foreground and
\* from its id in the background; the decorated function never receives a
\* raw id, an id without a row becoming None; with the setting off the
\* arguments arrive unchanged.
C28_RoundTrip ==
    LET e == last.effects
        given == Designated(task.parameter, last.args, last.kwargs)
        received(i) == Designated(task.parameter, e.invoked[i].args, e.invoked[i].kwargs)
    IN  /\ (settings.CELERY_PASS_MODEL_BY_ID /\ last.op = "call" /\ task.to_id
             /\ task.parameter.positional /\ IsModel(given) /\ given.v \in db.Finding) =>
                /\ e.raised = NoVal
                /\ Len(e.invoked) + Len(e.sent) = 1
                /\ \A i \in 1..Len(e.invoked) : received(i) = given
        /\ (settings.CELERY_PASS_MODEL_BY_ID /\ last.op = "run"
             /\ task.parameter.positional /\ given.kind = "int" /\ given.v # 0) =>
                /\ Len(e.invoked) = 1
                /\ received(1) = IF given.v \in db.Finding THEN Model(given.v) ELSE None
        /\ (settings.CELERY_PASS_MODEL_BY_ID /\ last.op \in {"call", "run"}) =>
                \A i \in 1..Len(e.invoked) : ~(received(i).kind = "int" /\ received(i).v # 0)
        /\ (~settings.CELERY_PASS_MODEL_BY_ID /\ last.op \in {"call", "run"}) =>
                /\ e.raised = NoVal
                /\ ArgumentsUnchanged(last)

\* C30 (as claimed): with a missing or falsy value at the designated
\* parameter the decorators convert nothing and call the function once with
\* the arguments given, for a positional as for a keyword designation; the
\* one error of their own is ValueError for an index beyond the arguments.
C30_FalsyPassesThrough ==
    LET e == last.effects
        given == Designated(task.parameter, last.args, last.kwargs)
        beyond == task.parameter.positional /\ task.parameter.index >= Len(last.args)
    IN  (last.op \in {"call", "run"} /\ ~PyBool(given)) =>
            /\ e.raised \in {NoVal, "ValueError"}
            /\ e.raised = "ValueError" => beyond
            /\ e.raised = NoVal =>
                  /\ Len(e.invoked) + Len(e.sent) = 1
                  /\ ArgumentsUnchanged(last)

(***************************************************************************)
(* dojo_ratelimit around a view.  A setting that is not defined is NoVal;  *)
(* task is the decorator's block argument, users the accounts with their   *)
(* force_password_reset flag, request the request after the wrapper ran.   *)
(***************************************************************************)
\* getattr(settings, name, default)
getattr(object, name, default) == IF object[name] = NoVal THEN default ELSE object[name]

\* the setting left out: the decorator's argument alone
limiter_block_argument_only(conf, block) == block

\* line 199
limiter_block(conf, block) == getattr(conf, "RATE_LIMITER_BLOCK", block)

\* line 206
Limited(ratelimited, old_limited) == PyOr(ratelimited, old_limited)

\* Dojo_User.objects.filter(username=username).first()
FirstUser(accounts, username) ==
    IF username \in DOMAIN accounts THEN username ELSE NoVal

\* lines 198-215 for a request with the given limited attribute and posted
\* username, is_ratelimited answering ratelimited; forced holds the account
\* enable_force_password_reset was called for
Wrapped(conf, block, accounts, limited, username, ratelimited) ==
    LET old_limited == IF limited = NoVal THEN "False" ELSE limited
        now_limited == Limited(ratelimited, old_limited)
        blocked == PyTruthy(ratelimited) /\ PyTruthy(limiter_block(conf, block))
        lockout == PyTruthy(getattr(conf, "RATE_LIMITER_ACCOUNT_LOCKOUT", "False"))
        dojo_user == IF username # NoVal /\ username # "" THEN FirstUser(accounts, username)
                     ELSE NoVal
    IN  [request |-> [limited |-> now_limited, username |-> username],
         users |-> IF blocked /\ lockout /\ dojo_user # NoVal
                   THEN [accounts EXCEPT ![dojo_user].force_password_reset = TRUE]
                   ELSE accounts,
         forced |-> IF blocked /\ lockout /\ dojo_user # NoVal THEN {dojo_user} ELSE {},
         called |-> IF blocked THEN 0 ELSE 1,
         raised |-> IF blocked THEN "Ratelimited" ELSE NoVal]

Usernames == {NoVal, "", "alice", "ghost"}

RatelimitInit ==
    /\ settings \in [{"RATE_LIMITER_BLOCK", "RATE_LIMITER_ACCOUNT_LOCKOUT"} ->
                        {NoVal, "True", "False"}]
    /\ task \in {[block |-> b] : b \in {"True", "False"}}
    /\ users = [u \in {"alice"} |-> [force_password_reset |-> FALSE]]
    /\ request = [limited |-> NoVal, username |-> NoVal]
    /\ last = [op |-> "none", limited |-> NoVal, ratelimited |-> "False",
               forced |-> {}, called |-> 0, raised |-> NoVal]
    /\ doc = NoVal
    /\ pc = "idle"
    /\ ci = 0
    /\ vi = 0
    /\ bom_refs = NoRefs
    /\ findings = <<>>
    /\ error = NoVal
    /\ jira_project = NoVal
    /\ tests = NoVal
    /\ fnd = NoVal
    /\ groups = NoVal
    /\ issues = NoVal
    /\ calls = NoVal
    /\ dicts = NoVal
    /\ thread_local = NoVal
    /\ broker = NoVal
    /\ log = NoVal
    /\ db = NoVal
    /\ reqs = NoVal

\* a request reaches the wrapped view
RatelimitedRequest ==
    \E limited \in {NoVal, "True", "False"}, username \in Usernames,
       ratelimited \in {"True", "False"} :
        LET out == Wrapped(settings, task.block, users, limited, username, ratelimited)
        IN  /\ request' = out.request
            /\ users' = out.users
            /\ last' = [op |-> "view", limited |-> limited, ratelimited |-> ratelimited,
                        forced |-> out.forced,
                        called |-> out.called, raised |-> out.raised]
            /\ UNCHANGED <<settings, task>>
            /\ UNCHANGED <<parserVars, jiraIdle, parallelVars, thread_local, broker, log,
                           db, reqs>>

RatelimitNext ==
    \/ RatelimitedRequest

SpecRatelimit == RatelimitInit /\ [][RatelimitNext]_vars

\* C27: the view is not called and Ratelimited is raised exactly when the
\* request is rate-limited and blocking is on (the setting RATE_LIMITER_BLOCK
\* when defined, else the decorator's block argument); otherwise the view is
\* called once.  request.limited never goes from true to false, and a
\* password reset is forced only on a blocked request with
\* RATE_LIMITER_ACCOUNT_LOCKOUT on and the posted username of an account.
C27_BlockedOrCalledOnce ==
    last.op = "view" =>
        LET blocking == IF settings["RATE_LIMITER_BLOCK"] # NoVal
                        THEN settings["RATE_LIMITER_BLOCK"] = "True"
                        ELSE task.block = "True"
            blocked == last.ratelimited = "True" /\ blocking
        IN  /\ IF blocked THEN last.raised = "Ratelimited" /\ last.called = 0
                          ELSE last.raised = NoVal /\ last.called = 1
            /\ last.limited = "True" => request.limited = "True"
            /\ last.ratelimited = "True" => request.limited = "True"
            /\ last.forced # {} =>
                  /\ blocked
                  /\ settings["RATE_LIMITER_ACCOUNT_LOCKOUT"] = "True"
                  /\ last.forced = {request.username}

C27_Witness ==
    /\ last.op = "view"
    /\ settings["RATE_LIMITER_BLOCK"] = "True" /\ task.block = "False"
    /\ last.raised = "Ratelimited" /\ last.called = 0
    /\ last.forced = {"alice"}
    /\ last.limited = NoVal /\ request.limited = "True"

(***************************************************************************)
(* dojo/api_v2/views.py: POST .../notes/ of a finding, an engagement and a *)
(* test.  db.notes gives, per object and note type, the number of notes    *)
(* attached; the note types are none (NoVal), one with is_single and one   *)
(* without.                                                                *)
(***************************************************************************)
Objects == {"finding", "engagement", "test"}
NoteTypes == {NoVal, "single", "multi"}

\* Note_Type.is_single of a validated note_type
is_single(note_type) == note_type = "single"

Held(held) == held[NoVal] + held["single"] + held["multi"]

Created(held, note_type) ==
    [status |-> 201, notes |-> [held EXCEPT ![note_type] = @ + 1]]

\* the note saved and attached whatever the object holds
AddNoteUnchecked(held, note_type) == Created(held, note_type)

\* object.notes.filter(note_type=note_type).first(), the is_single test, then
\* note.save() and object.notes.add(note)
AddNote(held, note_type) ==
    LET notes == held[note_type] > 0
    IN  IF notes /\ note_type # NoVal /\ is_single(note_type)
        THEN [status |-> 400, notes |-> held]
        ELSE Created(held, note_type)

\* a related manager is an object without __bool__ and __len__
ManagerTruthy == TRUE

\* the POST branch of the three notes actions; data is NoVal when
\* AddNewNoteOptionSerializer does not validate, else its note_type
EngagementNotes(held, data) ==
    IF ~data.valid THEN [status |-> 400, notes |-> held]
    ELSE AddNote(held, data.note_type)

FindingNotes(held, data) ==
    IF ~data.valid THEN [status |-> 400, notes |-> held]
    ELSE IF ManagerTruthy THEN AddNote(held, data.note_type)
         ELSE Created(held, data.note_type)

TestNotes(held, data) ==
    IF ~data.valid THEN [status |-> 400, notes |-> held]
    ELSE AddNote(held, data.note_type)

NoteData ==
    {[valid |-> FALSE, note_type |-> NoVal]}
        \cup {[valid |-> TRUE, note_type |-> t] : t \in NoteTypes}

NotesInit ==
    /\ db = [notes |-> [o \in Objects |-> [t \in NoteTypes |-> 0]]]
    /\ last = [op |-> "none", object |-> NoVal, data |-> [valid |-> FALSE, note_type |-> NoVal],
               status |-> 0]
    /\ doc = NoVal
    /\ pc = "idle"
    /\ ci = 0
    /\ vi = 0
    /\ bom_refs = NoRefs
    /\ findings = <<>>
    /\ error = NoVal
    /\ settings = NoVal
    /\ jira_project = NoVal
    /\ tests = NoVal
    /\ fnd = NoVal
    /\ groups = NoVal
    /\ issues = NoVal
    /\ calls = NoVal
    /\ dicts = NoVal
    /\ thread_local = NoVal
    /\ broker = NoVal
    /\ log = NoVal
    /\ task = NoVal
    /\ request = NoVal
    /\ users = NoVal
    /\ reqs = NoVal

\* POST /findings/{id}/notes/, /engagements/{id}/notes/ and /tests/{id}/notes/
PostFindingNote ==
    \E data \in NoteData :
        /\ Held(db.notes["finding"]) < MaxNotes
        /\ LET out == FindingNotes(db.notes["finding"], data)
           IN  /\ db' = [db EXCEPT !.notes["finding"] = out.notes]
               /\ last' = [op |-> "notes", object |-> "finding", data |-> data,
                           status |-> out.status]
        /\ UNCHANGED <<parserVars, settings, jiraIdle, parallelVars, taskVars,
                       request, users, reqs>>

PostEngagementNote ==
    \E data \in NoteData :
        /\ Held(db.notes["engagement"]) < MaxNotes
        /\ LET out == EngagementNotes(db.notes["engagement"], data)
           IN  /\ db' = [db EXCEPT !.notes["engagement"] = out.notes]
               /\ last' = [op |-> "notes", object |-> "engagement", data |-> data,
                           status |-> out.status]
        /\ UNCHANGED <<parserVars, settings, jiraIdle, parallelVars, taskVars,
                       request, users, reqs>>

PostTestNote ==
    \E data \in NoteData :
        /\ Held(db.notes["test"]) < MaxNotes
        /\ LET out == TestNotes(db.notes["test"], data)
           IN  /\ db' = [db EXCEPT !.notes["test"] = out.notes]
               /\ last' = [op |-> "notes", object |-> "test", data |-> data,
                           status |-> out.status]
        /\ UNCHANGED <<parserVars, settings, jiraIdle, parallelVars, taskVars,
                       request, users, reqs>>

NotesNext ==
    \/ PostFindingNote
    \/ PostEngagementNote
    \/ PostTestNote

SpecNotes == NotesInit /\ [][NotesNext]_vars

\* C24: after any sequence of POSTs an object holds at most one note of the
\* is_single type, and a POST of that type to an object that holds one is
\* answered with 400 and leaves the notes of every object as they were.
C24_SingleNoteTypeOnce ==
    [][/\ \A o \in Objects : db'.notes[o]["single"] <= 1
       /\ (last'.op = "notes" /\ last'.data.valid /\ last'.data.note_type = "single"
            /\ db.notes[last'.object]["single"] >= 1) =>
                /\ last'.status = 400
                /\ db'.notes = db.notes
       /\ (last'.op = "notes" /\ last'.data.valid
            /\ ~(last'.data.note_type = "single" /\ db.notes[last'.object]["single"] >= 1)) =>
                /\ last'.status = 201
                /\ db'.notes[last'.object][last'.data.note_type]
                      = db.notes[last'.object][last'.data.note_type] + 1]_vars

C24_Witness ==
    /\ last.op = "notes" /\ last.object = "finding"
    /\ last.data.valid /\ last.data.note_type = "single"
    /\ last.status = 400
    /\ db.notes["finding"]["single"] = 1
    /\ db.notes["test"]["single"] = 1
    /\ db.notes["engagement"]["multi"] = 1

(***************************************************************************)
(* DELETE /product_type_members/{id}/: ProductTypeMemberViewSet.destroy,   *)
(* several requests at once.  A request reads the row and counts the       *)
(* owners in one step and deletes in a later one; nothing in destroy holds *)
(* a lock or a transaction between the two.                                *)
(***************************************************************************)
Member(id, product_type, owner) ==
    [id |-> id, product_type |-> product_type, is_owner |-> owner]

Memberships ==
    {Member(1, "pt1", TRUE), Member(2, "pt1", TRUE), Member(3, "pt1", FALSE),
     Member(4, "pt2", TRUE)}

\* Product_Type_Member.objects.filter(product_type=..., role__is_owner=True)
Owners(members, product_type) ==
    {m \in members : m.product_type = product_type /\ m.is_owner}

Requests == 1..MaxRequests

Waiting == [stage |-> "waiting", instance |-> NoVal, status |-> 0]

\* lines 1949-1957: may the instance be destroyed
MayDestroy(members, instance) ==
    ~instance.is_owner \/ Cardinality(Owners(members, instance.product_type)) > 1

MembersInit ==
    /\ db = [members |-> Memberships]
    /\ reqs = [r \in Requests |-> Waiting]
    /\ last = [op |-> "none", instance |-> NoVal, status |-> 0, owners |-> 0]
    /\ doc = NoVal
    /\ pc = "idle"
    /\ ci = 0
    /\ vi = 0
    /\ bom_refs = NoRefs
    /\ findings = <<>>
    /\ error = NoVal
    /\ settings = NoVal
    /\ jira_project = NoVal
    /\ tests = NoVal
    /\ fnd = NoVal
    /\ groups = NoVal
    /\ issues = NoVal
    /\ calls = NoVal
    /\ dicts = NoVal
    /\ thread_local = NoVal
    /\ broker = NoVal
    /\ log = NoVal
    /\ task = NoVal
    /\ request = NoVal
    /\ users = NoVal

\* lines 1948-1957: get_object and the owner test of a new request
DestroyCheck ==
    \E r \in Requests, id \in {m.id : m \in Memberships} :
        /\ reqs[r].stage = "waiting"
        /\ LET found == {m \in db.members : m.id = id}
           IN  IF found = {}
               THEN /\ reqs' = [reqs EXCEPT ![r] = [stage |-> "done", instance |-> NoVal,
                                                    status |-> 404]]
                    /\ last' = [op |-> "destroy", instance |-> NoVal, status |-> 404,
                                owners |-> 0]
               ELSE LET instance == CHOOSE m \in found : TRUE
                    IN  IF MayDestroy(db.members, instance)
                        THEN /\ reqs' = [reqs EXCEPT ![r] = [stage |-> "checked",
                                             instance |-> instance, status |-> 0]]
                             /\ last' = last
                        ELSE /\ reqs' = [reqs EXCEPT ![r] = [stage |-> "done",
                                             instance |-> instance, status |-> 400]]
                             /\ last' = [op |-> "destroy", instance |-> instance,
                                         status |-> 400,
                                         owners |-> Cardinality(Owners(db.members,
                                                        instance.product_type))]
        /\ UNCHANGED db
        /\ UNCHANGED <<parserVars, settings, jiraIdle, parallelVars, taskVars,
                       request, users>>

\* lines 1958-1959: perform_destroy and the 204
DestroyPerform ==
    \E r \in Requests :
        /\ reqs[r].stage = "checked"
        /\ db' = [db EXCEPT !.members = @ \ {reqs[r].instance}]
        /\ reqs' = [reqs EXCEPT ![r] = [@ EXCEPT !.stage = "done", !.status = 204]]
        /\ last' = [op |-> "destroy", instance |-> reqs[r].instance, status |-> 204,
                    owners |-> Cardinality(Owners(db.members, reqs[r].instance.product_type))]
        /\ UNCHANGED <<parserVars, settings, jiraIdle, parallelVars, taskVars,
                       request, users>>

\* the response is sent and the worker takes the next request
DestroyAnswered ==
    \E r \in Requests :
        /\ reqs[r].stage = "done"
        /\ reqs' = [reqs EXCEPT ![r] = Waiting]
        /\ UNCHANGED <<db, last>>
        /\ UNCHANGED <<parserVars, settings, jiraIdle, parallelVars, taskVars,
                       request, users>>

MembersNext ==
    \/ DestroyCheck
    \/ DestroyPerform
    \/ DestroyAnswered

SpecMembers == MembersInit /\ [][MembersNext]_vars

\* C25 (as claimed): under any destroy requests, concurrent ones included,
\* a product type that had an owner keeps an owner, and a destroy of the
\* only owner membership is answered with 400.
C25_KeepsAnOwner ==
    /\ \A m \in Memberships : m.is_owner => Owners(db.members, m.product_type) # {}
    /\ (last.op = "destroy" /\ last.status = 400) =>
            (last.instance.is_owner /\ last.owners = 1 /\ last.instance \in db.members)

(***************************************************************************)
(* PUT/PATCH /findings/{id}/remove_tags/.  The tags of the finding are a   *)
(* list without repetition; a tag string is the list of its pieces, the    *)
(* names separated by ", ".                                                *)
(***************************************************************************)
TagNames == <<"a", "b", "c">>

Elements(list) == {list[i] : i \in 1..Len(list)}

\* list.remove(x): the first occurrence goes
RECURSIVE Remove(_, _)
Remove(list, x) ==
    IF list = <<>> THEN <<>>
    ELSE IF Head(list) = x THEN Tail(list)
         ELSE <<Head(list)>> \o Remove(Tail(list), x)

\* tagulous.utils.render_tags of plain names
RECURSIVE render_tags(_)
render_tags(list) ==
    IF list = <<>> THEN <<>>
    ELSE IF Len(list) = 1 THEN list
         ELSE <<Head(list), ", ">> \o render_tags(Tail(list))

\* the tag field reading a tag string: the names between the separators,
\* each once
RECURSIVE parse_tags(_)
parse_tags(string) ==
    IF string = <<>> THEN <<>>
    ELSE LET rest == parse_tags(Tail(string))
         IN  IF Head(string) = ", " \/ Head(string) \in Elements(rest) THEN rest
             ELSE <<Head(string)>> \o rest

\* the loop that drops a tag it does not find instead of answering 400
RECURSIVE RemoveKnown(_, _)
RemoveKnown(all_tags, del_tags) ==
    IF del_tags = <<>> THEN [status |-> 204, all_tags |-> all_tags]
    ELSE RemoveKnown(Remove(all_tags, Head(del_tags)), Tail(del_tags))

\* lines 1249-1257
RECURSIVE RemoveEach(_, _)
RemoveEach(all_tags, del_tags) ==
    IF del_tags = <<>> THEN [status |-> 204, all_tags |-> all_tags]
    ELSE IF Head(del_tags) \notin Elements(all_tags)
         THEN [status |-> 400, all_tags |-> all_tags]
         ELSE RemoveEach(Remove(all_tags, Head(del_tags)), Tail(del_tags))

\* lines 1233-1267; data is what TagSerializer validated
remove_tags(tags, data) ==
    IF ~data.valid THEN [status |-> 400, tags |-> tags]
    ELSE IF Len(data.tags) < 1 THEN [status |-> 400, tags |-> tags]
         ELSE LET out == RemoveEach(tags, data.tags)
              IN  IF out.status = 400 THEN [status |-> 400, tags |-> tags]
                  ELSE [status |-> 204, tags |-> parse_tags(render_tags(out.all_tags))]

\* the tag lists a finding can hold
RECURSIVE SubLists(_)
SubLists(list) ==
    IF list = <<>> THEN {<<>>}
    ELSE SubLists(Tail(list)) \cup {<<Head(list)>> \o l : l \in SubLists(Tail(list))}

TagData ==
    {[valid |-> FALSE, tags |-> <<>>]}
        \cup {[valid |-> TRUE, tags |-> l] : l \in SeqsUpTo(Elements(TagNames) \cup {"z"}, MaxDeleted)}

TagsInit ==
    /\ db \in {[tags |-> l] : l \in SubLists(TagNames)}
    /\ last = [op |-> "none", data |-> [valid |-> FALSE, tags |-> <<>>], before |-> <<>>,
               status |-> 0]
    /\ doc = NoVal
    /\ pc = "idle"
    /\ ci = 0
    /\ vi = 0
    /\ bom_refs = NoRefs
    /\ findings = <<>>
    /\ error = NoVal
    /\ settings = NoVal
    /\ jira_project = NoVal
    /\ tests = NoVal
    /\ fnd = NoVal
    /\ groups = NoVal
    /\ issues = NoVal
    /\ calls = NoVal
    /\ dicts = NoVal
    /\ thread_local = NoVal
    /\ broker = NoVal
    /\ log = NoVal
    /\ task = NoVal
    /\ request = NoVal
    /\ users = NoVal
    /\ reqs = NoVal

RemoveTags ==
    \E data \in TagData :
        LET out == remove_tags(db.tags, data)
        IN  /\ db' = [db EXCEPT !.tags = out.tags]
            /\ last' = [op |-> "remove_tags", data |-> data, before |-> db.tags,
                        status |-> out.status]
            /\ UNCHANGED <<parserVars, settings, jiraIdle, parallelVars, taskVars,
                           request, users, reqs>>

TagsNext ==
    \/ RemoveTags

SpecTags == TagsInit /\ [][TagsNext]_vars

\* a list names every element once
NoRepetition(list) == \A i \in 1..Len(list), j \in 1..Len(list) : list[i] = list[j] => i = j

\* C29: a request whose list is empty, names a tag the finding does not
\* carry or names a tag twice is answered with 400 and leaves the tags as
\* they were; any other valid request is answered with 204 and removes
\* exactly the listed tags.
C29_AllOrNothing ==
    last.op = "remove_tags" =>
        IF \/ ~last.data.valid
           \/ last.data.tags = <<>>
           \/ ~(Elements(last.data.tags) \subseteq Elements(last.before))
           \/ ~NoRepetition(last.data.tags)
        THEN last.status = 400 /\ db.tags = last.before
        ELSE /\ last.status = 204
             /\ Elements(db.tags) = Elements(last.before) \ Elements(last.data.tags)
             /\ NoRepetition(db.tags)

C29_Witness ==
    /\ last.op = "remove_tags" /\ last.status = 204
    /\ last.before = <<"a", "b", "c">>
    /\ last.data.tags = <<"c", "a">>
    /\ db.tags = <<"b">>

====
